---- MODULE Spec2Model ----
(***************************************************************************)
(* A model of onyx: the credential session life cycle (src/auth.rs), the   *)
(* commands of src/main.rs that drive it, the keyring credential store and *)
(* the scrobble submission pipeline (src/scrobble.rs).                     *)
(*                                                                         *)
(* The session pointer is the file session.json, the keyring is the OS     *)
(* secret store addressed by (service, key string), the file store is     *)
(* store.json.  The transport library, the OAuth flow and the remote       *)
(* service are the environment: each call into them either succeeds or     *)
(* fails, chosen by the environment.                                       *)
(***************************************************************************)
EXTENDS Integers, Sequences, FiniteSets, TLC

\* ------------------------------------------------------------------------
\* Bounds
\* ------------------------------------------------------------------------

\* Number of distinct accounts (DIDs) the identity resolver knows.
MaxDids == 2

\* Number of distinct session ids the OAuth flow can hand out.
MaxOAuthSessions == 1

\* Number of distinct OAuth authorization-request state tokens.
MaxAuthReqStates == 1

\* Number of distinct secret values (tokens) a stored blob can carry.
MaxToken == 2

\* Number of calls made one after the other on one machine.
MaxCalls == 3

\* Number of store operations applied one after the other to one keyring.
MaxStoreCalls == 2

\* Number of entries in a scrobble log file.
MaxEntries == 3

\* Number of submission runs made one after the other on one log file.
MaxRuns == 1

\* Longest argument string of parse_artist_list.
MaxStrLen == 3

\* Latest moment, in minutes, a status command runs at or is given.
MaxTime == 1

\* Status commands in one behaviour.
MaxStatusCalls == 2

\* Commands of any kind run one after the other on one configuration
\* directory.
MaxPointerCalls == 2

\* The longest track duration displayed, in seconds (two hours and more).
MaxDuration == 7325

\* ------------------------------------------------------------------------
\* Values
\* ------------------------------------------------------------------------

Dids == 1..MaxDids

\* A login identifier is a DID, a handle the resolver maps to a DID, or a
\* handle that resolves to nothing.
Idents == [form : {"did", "handle"}, n : 0..MaxDids] \ {[form |-> "did", n |-> 0]}

AppPasswordSessionId == "session"

OAuthSessionIds == {"oauth" \o ToString(i) : i \in 1..MaxOAuthSessions}

SessionIds == {AppPasswordSessionId} \cup OAuthSessionIds

AuthReqStates == 1..MaxAuthReqStates

StoreMethods == {"Keyring", "File"}

AuthMethods == {"OAuth", "AppPassword"}

Tokens == 1..MaxToken

\* The token the remote service issues at login (opaque to onyx).
IssuedToken == 1

\* format!("{}_{}", did, session_id)
SessionKeyStr(did, session_id) == <<"did", did, session_id>>

\* format!("authreq_{}", state)
AuthReqKeyStr(state) == <<"authreq", state, "">>

StoreKeys ==
    {SessionKeyStr(d, s) : d \in Dids, s \in SessionIds}
        \cup {AuthReqKeyStr(st) : st \in AuthReqStates}

\* What one store slot holds.  kind "none" is a key without an entry.  The
\* keyring holds either the JSON of a StoredPasswordSession or the JSON of a
\* StoredSession (OAuth / OAuthState); the file store holds StoredSession
\* values (Atp / OAuth / OAuthState).
NoEntry == [kind |-> "none", tok |-> 0]

Blob(kind, tok) == [kind |-> kind, tok |-> tok]

\* jacquard's AtpSession: tok stands for the pair access_jwt, refresh_jwt.
AtpSession(tok, did, handle) ==
    [kind |-> "AtpSession", tok |-> tok, did |-> did, handle |-> handle]

\* StoredPasswordSession, the JSON the keyring holds for a password session.
StoredPasswordSession(tok, did, session_id, handle) ==
    [kind |-> "StoredPasswordSession", tok |-> tok, did |-> did,
     session_id |-> session_id, handle |-> handle]

EmptyStore == [k \in StoreKeys |-> NoEntry]

\* session.json: absent, unreadable as JSON, or an AuthSession.
NoFile == [st |-> "absent", did |-> 0, session_id |-> "", store |-> "", auth |-> ""]

CorruptFile == [st |-> "corrupt", did |-> 0, session_id |-> "", store |-> "", auth |-> ""]

AuthSession(did, session_id, store, auth) ==
    [st |-> "present", did |-> did, session_id |-> session_id, store |-> store, auth |-> auth]

\* A call and the value it returned.  op names the call and arg holds its
\* arguments; kind is "Ok" or the error variant; info is the AuthSession a
\* call reports; variant is the GenericSession variant; val is the Option a
\* store operation returned, the value a session capability returned, or
\* the ClientErrorKind of a ClientError.
Ret(op, kind, msg) ==
    [op |-> op, kind |-> kind, msg |-> msg, info |-> NoFile, variant |-> "",
     arg |-> <<>>, val |-> <<>>]

RetInfo(op, info, variant) ==
    [op |-> op, kind |-> "Ok", msg |-> "", info |-> info, variant |-> variant,
     arg |-> <<>>, val |-> <<>>]

NotLoggedIn(op) == Ret(op, "Auth", "not logged in")

\* The From conversions of error.rs: the OnyxError variant an error of a
\* collaborator becomes when `?` returns it.
From(err) ==
    CASE err = "SessionStoreError" -> "SessionStore"
      [] err = "io::Error" -> "Io"
      [] err = "serde_json::Error" -> "Serde"
      [] err = "IdentityError" -> "Identity"
      [] err = "OAuthError" -> "OAuthError"
      [] err = "ClientError" -> "ClientError"
      [] err = "AgentError" -> "AgentError"
      [] err = "ParserError" -> "ParserError"
      [] OTHER -> "Other"

\* An AudioScrobbler log file: whether the #AUDIOSCROBBLER/ version header
\* is there, the #CLIENT/ header if any, and the entries in file order, each
\* with its track name and its rating field ("L", "S", or "X" for anything
\* else).
TrackNames == {"a", "b"}

Ratings == {"L", "S", "X"}

ClientIds == {<<>>, <<"rockbox">>}

LogEntries == [track_name : TrackNames, rating : Ratings]

RECURSIVE SeqsUpTo(_, _)
SeqsUpTo(S, n) ==
    IF n = 0 THEN {<<>>}
    ELSE LET shorter == SeqsUpTo(S, n - 1)
         IN  shorter \cup {Append(q, x) : q \in shorter, x \in S}

LogFiles ==
    [version : BOOLEAN, client_id : ClientIds, entries : SeqsUpTo(LogEntries, MaxEntries)]

NoLog == [version |-> FALSE, client_id |-> <<>>, entries |-> <<>>]

\* The log file after std::fs::remove_file.
RemovedLog == [removed |-> TRUE]

\* get_status_endpoint: at://<did>/fm.teal.alpha.actor.status/self
get_status_endpoint(did) == <<"at", did, "fm.teal.alpha.actor.status", "self">>

StatusEndpoints == {get_status_endpoint(d) : d \in Dids}

\* A status address without a record.
NoStatus == [st |-> "absent"]

NoStatuses == [e \in StatusEndpoints |-> NoStatus]

VARIABLES
    pointer,     \* contents of <config_dir>/session.json
    keyring,     \* OS keyring entries of service "onyx", by key string
    filestore,   \* entries of <config_dir>/store.json, by key string
    ret,         \* the last call and what it returned
    prev,        \* the call before the last and what it returned
    calls,       \* external accesses the last call made, in order
    ncalls,      \* number of calls made so far
    logfile,     \* the scrobble log file on disk
    remote,      \* the create_record requests of the last call, in order,
                 \* each with the answer of the service
    stdout,      \* the lines the last call printed
    statuses     \* the record at at://<did>/fm.teal.alpha.actor.status/self
                 \* of every did

vars ==
    <<pointer, keyring, filestore, ret, prev, calls, ncalls, logfile, remote, stdout,
      statuses>>

\* ------------------------------------------------------------------------
\* The keyring credential store (KeyringTokenStore, KeyringAuthStore)
\* ------------------------------------------------------------------------

\* Result of a store operation: ok, the store afterwards, and for a get the
\* Option returned (<<>> is None, <<v>> is Some(v)).
StoreRes(ok, store, val) == [ok |-> ok, store |-> store, val |-> val]

\* keyring::Entry::delete_credential as the code uses it: Ok(()) when the
\* entry existed and was removed, Err(NoEntry) when the key has no entry, any
\* other error when the backend fails.
Entry_delete_credential(kr, key, fault) ==
    IF fault THEN [res |-> "Failure", store |-> kr]
    ELSE IF kr[key] = NoEntry THEN [res |-> "NoEntry", store |-> kr]
    ELSE [res |-> "Ok", store |-> [kr EXCEPT ![key] = NoEntry]]

\* serde_json::from_str::<T>: a stored value decodes only as the type it was
\* written as.
Decodes(blob, T) ==
    IF T = "StoredPasswordSession" THEN blob.kind = "StoredPasswordSession"
    ELSE blob.kind \in {"Atp", "OAuth", "OAuthState"}

\* KeyringTokenStore::get::<T>: every error becomes None.
KeyringTokenStore_get(kr, key, T, fault) ==
    IF fault \/ kr[key] = NoEntry \/ ~Decodes(kr[key], T)
    THEN StoreRes(TRUE, kr, <<>>)
    ELSE StoreRes(TRUE, kr, <<kr[key]>>)

\* KeyringTokenStore::set
KeyringTokenStore_set(kr, key, blob, fault) ==
    IF fault THEN StoreRes(FALSE, kr, <<>>)
    ELSE StoreRes(TRUE, [kr EXCEPT ![key] = blob], <<>>)

\* KeyringTokenStore::del: every error of delete_credential is returned,
\* NoEntry included.
KeyringTokenStore_del(kr, key, fault) ==
    LET d == Entry_delete_credential(kr, key, fault)
    IN  StoreRes(d.res = "Ok", d.store, <<>>)

\* A get that rebuilds the AtpSession with the handle in the place of the
\* did.
AtpSessionStore_get_HandleAsDid(kr, did, session_id, fault) ==
    LET g == KeyringTokenStore_get(kr, SessionKeyStr(did, session_id),
                                   "StoredPasswordSession", fault)
    IN  IF g.val = <<>> THEN StoreRes(TRUE, kr, <<>>)
        ELSE LET stored == g.val[1]
             IN  StoreRes(TRUE, kr,
                          <<AtpSession(stored.tok, stored.handle, stored.handle)>>)

\* SessionStore<SessionKey, AtpSession>::get for KeyringAuthStore
AtpSessionStore_get(kr, did, session_id, fault) ==
    LET g == KeyringTokenStore_get(kr, SessionKeyStr(did, session_id),
                                   "StoredPasswordSession", fault)
    IN  IF g.val = <<>> THEN StoreRes(TRUE, kr, <<>>)
        ELSE LET stored == g.val[1]
             IN  StoreRes(TRUE, kr,
                          <<AtpSession(stored.tok, stored.did, stored.handle)>>)

\* SessionStore<SessionKey, AtpSession>::set for KeyringAuthStore
AtpSessionStore_set(kr, did, session_id, session, fault) ==
    KeyringTokenStore_set(kr, SessionKeyStr(did, session_id),
                          StoredPasswordSession(session.tok, session.did,
                                                session_id, session.handle),
                          fault)

\* SessionStore<SessionKey, AtpSession>::del for KeyringAuthStore
AtpSessionStore_del(kr, did, session_id, fault) ==
    LET d == Entry_delete_credential(kr, SessionKeyStr(did, session_id), fault)
    IN  StoreRes(d.res = "Ok", d.store, <<>>)

\* A get_session that answers Ok(None) when get yields None.
KeyringAuthStore_get_session_MissIsNone(kr, did, session_id, fault) ==
    LET g == KeyringTokenStore_get(kr, SessionKeyStr(did, session_id),
                                   "StoredSession", fault)
    IN  IF g.val = <<>> THEN StoreRes(TRUE, kr, <<>>)
        ELSE IF g.val[1].kind = "OAuth"
             THEN StoreRes(TRUE, kr, <<Blob("ClientSessionData", g.val[1].tok)>>)
             ELSE StoreRes(TRUE, kr, <<>>)

\* KeyringAuthStore::get_session: Err("not found") when get yields None,
\* Ok(None) when the entry is not an OAuth session.
KeyringAuthStore_get_session(kr, did, session_id, fault) ==
    LET g == KeyringTokenStore_get(kr, SessionKeyStr(did, session_id),
                                   "StoredSession", fault)
    IN  IF g.val = <<>> THEN StoreRes(FALSE, kr, <<>>)
        ELSE IF g.val[1].kind = "OAuth"
             THEN StoreRes(TRUE, kr, <<Blob("ClientSessionData", g.val[1].tok)>>)
             ELSE StoreRes(TRUE, kr, <<>>)

\* KeyringAuthStore::upsert_session
KeyringAuthStore_upsert_session(kr, did, session_id, session, fault) ==
    KeyringTokenStore_set(kr, SessionKeyStr(did, session_id),
                          Blob("OAuth", session.tok), fault)

\* A delete_session that returns the NoEntry error like the del of the
\* token stores.
KeyringAuthStore_delete_session_NoEntryIsError(kr, did, session_id, fault) ==
    LET d == Entry_delete_credential(kr, SessionKeyStr(did, session_id), fault)
    IN  StoreRes(d.res = "Ok", d.store, <<>>)

\* KeyringAuthStore::delete_session: NoEntry is tolerated.
KeyringAuthStore_delete_session(kr, did, session_id, fault) ==
    LET d == Entry_delete_credential(kr, SessionKeyStr(did, session_id), fault)
    IN  StoreRes(d.res \in {"Ok", "NoEntry"}, d.store, <<>>)

\* KeyringAuthStore::get_auth_req_info
KeyringAuthStore_get_auth_req_info(kr, state, fault) ==
    LET g == KeyringTokenStore_get(kr, AuthReqKeyStr(state), "StoredSession", fault)
    IN  IF g.val = <<>> THEN StoreRes(FALSE, kr, <<>>)
        ELSE IF g.val[1].kind = "OAuthState"
             THEN StoreRes(TRUE, kr, <<Blob("AuthRequestData", g.val[1].tok)>>)
             ELSE StoreRes(TRUE, kr, <<>>)

\* KeyringAuthStore::save_auth_req_info
KeyringAuthStore_save_auth_req_info(kr, state, auth_req, fault) ==
    KeyringTokenStore_set(kr, AuthReqKeyStr(state),
                          Blob("OAuthState", auth_req.tok), fault)

\* KeyringAuthStore::delete_auth_req_info: NoEntry is tolerated.
KeyringAuthStore_delete_auth_req_info(kr, state, fault) ==
    LET d == Entry_delete_credential(kr, AuthReqKeyStr(state), fault)
    IN  StoreRes(d.res \in {"Ok", "NoEntry"}, d.store, <<>>)

\* ------------------------------------------------------------------------
\* The file credential store (jacquard::FileAuthStore over store.json), as
\* the Authenticator uses it
\* ------------------------------------------------------------------------

\* SessionStore<SessionKey, AtpSession>::get / ClientAuthStore::get_session
\* of FileAuthStore: the value under the key when it is of the wanted kind.
FileAuthStore_get(fs, did, session_id, kind, fault) ==
    IF fault THEN StoreRes(FALSE, fs, <<>>)
    ELSE IF fs[SessionKeyStr(did, session_id)].kind = kind
         THEN StoreRes(TRUE, fs, <<fs[SessionKeyStr(did, session_id)]>>)
         ELSE StoreRes(TRUE, fs, <<>>)

\* FileAuthStore set / upsert_session / save_auth_req_info
FileAuthStore_set(fs, key, blob, fault) ==
    IF fault THEN StoreRes(FALSE, fs, <<>>)
    ELSE StoreRes(TRUE, [fs EXCEPT ![key] = blob], <<>>)

\* A delete_session that reports success and leaves the key in the map.
FileAuthStore_delete_session_Noop(fs, did, session_id, fault) ==
    IF fault THEN StoreRes(FALSE, fs, <<>>)
    ELSE StoreRes(TRUE, fs, <<>>)

\* FileAuthStore::delete_session: removes the key from the map; a missing
\* key is not an error.
FileAuthStore_delete_session(fs, did, session_id, fault) ==
    IF fault THEN StoreRes(FALSE, fs, <<>>)
    ELSE StoreRes(TRUE, [fs EXCEPT ![SessionKeyStr(did, session_id)] = NoEntry], <<>>)

\* FileAuthStore::delete_auth_req_info
FileAuthStore_delete_auth_req_info(fs, state, fault) ==
    IF fault THEN StoreRes(FALSE, fs, <<>>)
    ELSE StoreRes(TRUE, [fs EXCEPT ![AuthReqKeyStr(state)] = NoEntry], <<>>)

\* ------------------------------------------------------------------------
\* AuthSessionStore: the session pointer file session.json
\* ------------------------------------------------------------------------

PtrRes(ok, err, ptr, val) == [ok |-> ok, err |-> err, pointer |-> ptr, val |-> val]

\* A get_session without the exists() check: reading a missing file fails.
AuthSessionStore_get_session_NoExistsCheck(p, fault) ==
    IF p.st = "absent" \/ fault THEN PtrRes(FALSE, From("io::Error"), p, <<>>)
    ELSE IF p.st = "corrupt" THEN PtrRes(FALSE, From("serde_json::Error"), p, <<>>)
    ELSE PtrRes(TRUE, "", p, <<>>)

\* AuthSessionStore::get_session
AuthSessionStore_get_session(p, fault) ==
    IF p.st = "absent" THEN PtrRes(TRUE, "", p, <<>>)
    ELSE IF fault THEN PtrRes(FALSE, From("io::Error"), p, <<>>)
    ELSE IF p.st = "corrupt" THEN PtrRes(FALSE, From("serde_json::Error"), p, <<>>)
    ELSE PtrRes(TRUE, "", p, <<p>>)

\* A set_session that creates the file but never overwrites one.
AuthSessionStore_set_session_CreateOnly(p, session, fault) ==
    IF fault = "ptr_write_fail" THEN PtrRes(FALSE, From("io::Error"), p, <<>>)
    ELSE IF fault = "ptr_write_partial" THEN PtrRes(FALSE, From("io::Error"), CorruptFile, <<>>)
    ELSE IF p.st = "present" THEN PtrRes(TRUE, "", p, <<>>)
    ELSE PtrRes(TRUE, "", session, <<>>)

\* AuthSessionStore::set_session: std::fs::write truncates and then writes;
\* it fails before touching the file, or after truncating it.
AuthSessionStore_set_session(p, session, fault) ==
    IF fault = "ptr_write_fail" THEN PtrRes(FALSE, From("io::Error"), p, <<>>)
    ELSE IF fault = "ptr_write_partial" THEN PtrRes(FALSE, From("io::Error"), CorruptFile, <<>>)
    ELSE PtrRes(TRUE, "", session, <<>>)

\* A delete_session that reports success without removing the file.
AuthSessionStore_delete_session_Keeps(p, fault) ==
    PtrRes(TRUE, "", p, <<>>)

\* AuthSessionStore::delete_session
AuthSessionStore_delete_session(p, fault) ==
    IF p.st = "absent" THEN PtrRes(TRUE, "", p, <<>>)
    ELSE IF fault THEN PtrRes(FALSE, From("io::Error"), p, <<>>)
    ELSE PtrRes(TRUE, "", NoFile, <<>>)

\* ------------------------------------------------------------------------
\* Authenticator
\* ------------------------------------------------------------------------

\* The state and return value a call ends in.
Out(p, kr, fs, r, c) ==
    [pointer |-> p, keyring |-> kr, filestore |-> fs, ret |-> r, calls |-> c]

StoreName(store_method) == IF store_method = "Keyring" THEN "keyring" ELSE "file"

\* Authenticator::resolve_did and the resolution the transport library does
\* for a password login: a DID parses to itself, a known handle resolves to
\* its DID, an unknown handle to nothing (0).
Resolve(ident) == ident.n

\* A logout that removes the pointer first and the blob after it.
Authenticator_logout_PointerFirst(p, kr, fs, env) ==
    IF p.st = "absent" THEN Out(p, kr, fs, NotLoggedIn("logout"), <<"pointer.read">>)
    ELSE IF env = "ptr_read_fail"
    THEN Out(p, kr, fs, Ret("logout", From("io::Error"), ""), <<"pointer.read">>)
    ELSE IF p.st = "corrupt"
    THEN Out(p, kr, fs, Ret("logout", From("serde_json::Error"), ""), <<"pointer.read">>)
    ELSE IF env = "ptr_remove_fail"
    THEN Out(p, kr, fs, Ret("logout", From("io::Error"), ""),
             <<"pointer.read", "pointer.remove">>)
    ELSE
      LET key == SessionKeyStr(p.did, p.session_id)
          c == <<"pointer.read", "pointer.remove", StoreName(p.store) \o ".delete">>
      IN  IF env = "store_fail"
          THEN Out(NoFile, kr, fs, Ret("logout", From("SessionStoreError"), ""), c)
          ELSE Out(NoFile,
                   IF p.store = "Keyring" THEN [kr EXCEPT ![key] = NoEntry] ELSE kr,
                   IF p.store = "Keyring" THEN fs ELSE [fs EXCEPT ![key] = NoEntry],
                   Ret("logout", "Ok", ""), c)

\* A logout that empties the store the pointer names.
Authenticator_logout_ClearsStore(p, kr, fs, env) ==
    LET g == AuthSessionStore_get_session(p, env = "ptr_read_fail")
    IN  IF ~g.ok THEN Out(p, kr, fs, Ret("logout", g.err, ""), <<"pointer.read">>)
        ELSE IF g.val = <<>>
        THEN Out(p, kr, fs, NotLoggedIn("logout"), <<"pointer.read">>)
        ELSE
          LET session == g.val[1]
              kr2 == IF session.store = "Keyring" THEN EmptyStore ELSE kr
              fs2 == IF session.store = "Keyring" THEN fs ELSE EmptyStore
              c2  == <<"pointer.read", StoreName(session.store) \o ".delete">>
          IN  IF env = "store_fail"
              THEN Out(p, kr, fs, Ret("logout", From("SessionStoreError"), ""), c2)
              ELSE
                LET r == AuthSessionStore_delete_session(p, env = "ptr_remove_fail")
                IN  Out(r.pointer, kr2, fs2,
                        Ret("logout", IF r.ok THEN "Ok" ELSE r.err, ""),
                        Append(c2, "pointer.remove"))

\* Authenticator::logout
Authenticator_logout(p, kr, fs, env) ==
    LET g == AuthSessionStore_get_session(p, env = "ptr_read_fail")
    IN  IF ~g.ok THEN Out(p, kr, fs, Ret("logout", g.err, ""), <<"pointer.read">>)
        ELSE IF g.val = <<>>
        THEN Out(p, kr, fs, NotLoggedIn("logout"), <<"pointer.read">>)
        ELSE
          LET session == g.val[1]
              d  == IF session.store = "Keyring"
                    THEN KeyringAuthStore_delete_session(
                             kr, session.did, session.session_id, env = "store_fail")
                    ELSE FileAuthStore_delete_session(
                             fs, session.did, session.session_id, env = "store_fail")
              kr2 == IF session.store = "Keyring" THEN d.store ELSE kr
              fs2 == IF session.store = "Keyring" THEN fs ELSE d.store
              c2  == <<"pointer.read", StoreName(session.store) \o ".delete">>
          IN  IF ~d.ok
              THEN Out(p, kr2, fs2, Ret("logout", From("SessionStoreError"), ""), c2)
              ELSE
                LET r == AuthSessionStore_delete_session(p, env = "ptr_remove_fail")
                IN  Out(r.pointer, kr2, fs2,
                        Ret("logout", IF r.ok THEN "Ok" ELSE r.err, ""),
                        Append(c2, "pointer.remove"))

\* A get_session_info that checks the blob in the store before it answers.
Authenticator_get_session_info_Verifying(p, kr, fs, env) ==
    IF p.st = "absent"
    THEN Out(p, kr, fs, NotLoggedIn("get_session_info"), <<"pointer.read">>)
    ELSE IF env = "ptr_read_fail"
    THEN Out(p, kr, fs, Ret("get_session_info", From("io::Error"), ""), <<"pointer.read">>)
    ELSE IF p.st = "corrupt"
    THEN Out(p, kr, fs, Ret("get_session_info", From("serde_json::Error"), ""),
             <<"pointer.read">>)
    ELSE Out(p, kr, fs, RetInfo("get_session_info", p, ""),
             <<"pointer.read", StoreName(p.store) \o ".get">>)

\* Authenticator::get_session_info
Authenticator_get_session_info(p, kr, fs, env) ==
    LET g == AuthSessionStore_get_session(p, env = "ptr_read_fail")
    IN  IF ~g.ok THEN Out(p, kr, fs, Ret("get_session_info", g.err, ""), <<"pointer.read">>)
        ELSE IF g.val # <<>>
        THEN Out(p, kr, fs, RetInfo("get_session_info", g.val[1], ""), <<"pointer.read">>)
        ELSE Out(p, kr, fs, NotLoggedIn("get_session_info"), <<"pointer.read">>)

\* A restore that builds the keyring variant whatever store the pointer
\* names.
VariantOf_KeyringOnly(auth, store) ==
    IF auth = "OAuth" THEN "KeyringOAuth" ELSE "KeyringPassword"

\* The GenericSession variant restore builds for a pointer.
VariantOf(auth, store) ==
    IF auth = "OAuth"
    THEN (IF store = "Keyring" THEN "KeyringOAuth" ELSE "FileOAuth")
    ELSE (IF store = "Keyring" THEN "KeyringPassword" ELSE "FilePassword")

\* GenericSession::session_kind
session_kind(variant) ==
    IF variant \in {"KeyringOAuth", "FileOAuth"} THEN "OAuth" ELSE "AppPassword"

\* GenericSession::session_info of a session restored for (did, session_id)
session_info(variant, did, session_id) ==
    AuthSession(did, session_id, "", session_kind(variant))

\* A restore_app_password that reports a missing blob as "not logged in".
Authenticator_restore_app_password_MissIsLoggedOut(session, p, kr, fs, env) ==
    LET key == SessionKeyStr(session.did, session.session_id)
        store == IF session.store = "Keyring" THEN kr ELSE fs
        c == <<"pointer.read", StoreName(session.store) \o ".get">>
        v == VariantOf("AppPassword", session.store)
    IN  IF env = "store_fail" \/ store[key] = NoEntry
        THEN Out(p, kr, fs, NotLoggedIn("restore"), c)
        ELSE IF env = "rejected"
        THEN Out(p, kr, fs, Ret("restore", From("ClientError"), ""), Append(c, "remote"))
        ELSE Out(p, kr, fs,
                 RetInfo("restore", session_info(v, session.did, session.session_id), v),
                 Append(c, "remote"))

\* Authenticator::restore_app_password: CredentialSession::restore reads the
\* AtpSession under (did, session_id) from the store; a miss or a rejection
\* by the backend is a ClientError.
Authenticator_restore_app_password(session, p, kr, fs, env) ==
    LET g == IF session.store = "Keyring"
             THEN AtpSessionStore_get(kr, session.did, session.session_id,
                                      env = "store_fail")
             ELSE FileAuthStore_get(fs, session.did, session.session_id, "Atp",
                                    env = "store_fail")
        c == <<"pointer.read", StoreName(session.store) \o ".get">>
        v == VariantOf("AppPassword", session.store)
    IN  IF g.val = <<>> THEN Out(p, kr, fs, Ret("restore", From("ClientError"), ""), c)
        ELSE IF env = "rejected"
        THEN Out(p, kr, fs, Ret("restore", From("ClientError"), ""), Append(c, "remote"))
        ELSE Out(p, kr, fs,
                 RetInfo("restore", session_info(v, session.did, session.session_id), v),
                 Append(c, "remote"))

\* Authenticator::restore_oauth: OAuthClient::restore reads the session from
\* the store with get_session; an error, a miss or a rejection by the
\* backend is an OAuthError.
Authenticator_restore_oauth(session, p, kr, fs, env) ==
    LET g == IF session.store = "Keyring"
             THEN KeyringAuthStore_get_session(kr, session.did, session.session_id,
                                               env = "store_fail")
             ELSE FileAuthStore_get(fs, session.did, session.session_id, "OAuth",
                                    env = "store_fail")
        c == <<"pointer.read", StoreName(session.store) \o ".get">>
        v == VariantOf("OAuth", session.store)
    IN  IF ~g.ok \/ g.val = <<>> THEN Out(p, kr, fs, Ret("restore", From("OAuthError"), ""), c)
        ELSE IF env = "rejected"
        THEN Out(p, kr, fs, Ret("restore", From("OAuthError"), ""), Append(c, "remote"))
        ELSE Out(p, kr, fs,
                 RetInfo("restore", session_info(v, session.did, session.session_id), v),
                 Append(c, "remote"))

\* A restore that removes the pointer when the session it names cannot be
\* restored.
Authenticator_restore_ForgetsUnusable(p, kr, fs, env) ==
    LET g == AuthSessionStore_get_session(p, env = "ptr_read_fail")
        o == IF g.val[1].auth = "OAuth"
             THEN Authenticator_restore_oauth(g.val[1], p, kr, fs, env)
             ELSE Authenticator_restore_app_password(g.val[1], p, kr, fs, env)
    IN  IF ~g.ok THEN Out(p, kr, fs, Ret("restore", g.err, ""), <<"pointer.read">>)
        ELSE IF g.val = <<>>
        THEN Out(p, kr, fs, NotLoggedIn("restore"), <<"pointer.read">>)
        ELSE IF o.ret.kind # "Ok" THEN [o EXCEPT !.pointer = NoFile]
        ELSE o

\* Authenticator::restore
Authenticator_restore(p, kr, fs, env) ==
    LET g == AuthSessionStore_get_session(p, env = "ptr_read_fail")
    IN  IF ~g.ok THEN Out(p, kr, fs, Ret("restore", g.err, ""), <<"pointer.read">>)
        ELSE IF g.val = <<>>
        THEN Out(p, kr, fs, NotLoggedIn("restore"), <<"pointer.read">>)
        ELSE IF g.val[1].auth = "OAuth"
        THEN Authenticator_restore_oauth(g.val[1], p, kr, fs, env)
        ELSE Authenticator_restore_app_password(g.val[1], p, kr, fs, env)

\* A tail that removes the session the previous pointer names from its
\* store when the pointer is replaced by one with another key.
LoginSetSession_DropsPrevious(op, p, kr, fs, auth_session, c, env) ==
    LET w == AuthSessionStore_set_session(p, auth_session, env)
        old == SessionKeyStr(p.did, p.session_id)
        drop == /\ w.ok
                /\ p.st = "present"
                /\ <<p.did, p.session_id, p.store>>
                       # <<auth_session.did, auth_session.session_id, auth_session.store>>
    IN  Out(w.pointer,
            IF drop /\ p.store = "Keyring" THEN [kr EXCEPT ![old] = NoEntry] ELSE kr,
            IF drop /\ p.store # "Keyring" THEN [fs EXCEPT ![old] = NoEntry] ELSE fs,
            IF w.ok THEN Ret(op, "Ok", "") ELSE Ret(op, w.err, ""),
            Append(c, "pointer.write"))

\* The tail of both login procedures: build the AuthSession and write it
\* with set_session.
LoginSetSession(op, p, kr, fs, auth_session, c, env) ==
    LET w == AuthSessionStore_set_session(p, auth_session, env)
    IN  Out(w.pointer, kr, fs,
            IF w.ok THEN Ret(op, "Ok", "") ELSE Ret(op, w.err, ""),
            Append(c, "pointer.write"))

\* A login_app_password that writes the pointer although storing the
\* session failed.
Authenticator_login_app_password_PointerAnyway(p, kr, fs, ident, store_method, env) ==
    LET did == Resolve(ident)
        w   == AuthSessionStore_set_session(
                   p, AuthSession(did, AppPasswordSessionId, store_method, "AppPassword"), env)
        kr2 == IF store_method = "Keyring" /\ env # "store_fail"
               THEN [kr EXCEPT ![SessionKeyStr(did, AppPasswordSessionId)] =
                         StoredPasswordSession(IssuedToken, did,
                                               AppPasswordSessionId, did)]
               ELSE kr
        fs2 == IF store_method = "File" /\ env # "store_fail"
               THEN [fs EXCEPT ![SessionKeyStr(did, AppPasswordSessionId)] =
                         Blob("Atp", IssuedToken)]
               ELSE fs
    IN  IF did = 0 \/ env = "exchange_fail"
        THEN Out(p, kr, fs, Ret("login", From("ClientError"), ""), <<"remote">>)
        ELSE Out(w.pointer, kr2, fs2,
                 IF w.ok THEN Ret("login", "Ok", "") ELSE Ret("login", w.err, ""),
                 <<"remote", StoreName(store_method) \o ".set", "pointer.write">>)

\* Authenticator::login_app_password: CredentialSession::login exchanges the
\* identifier and password for a session and stores it under
\* (did, "session") in the chosen store; then the pointer is written.
Authenticator_login_app_password(p, kr, fs, ident, store_method, env) ==
    LET session_id == AppPasswordSessionId
        did == Resolve(ident)
        c1  == <<"remote">>
        c2  == Append(c1, StoreName(store_method) \o ".set")
        w   == IF store_method = "Keyring"
               THEN AtpSessionStore_set(kr, did, session_id,
                                        AtpSession(IssuedToken, did, did),
                                        env = "store_fail")
               ELSE FileAuthStore_set(fs, SessionKeyStr(did, session_id),
                                      Blob("Atp", IssuedToken), env = "store_fail")
        kr2 == IF store_method = "Keyring" THEN w.store ELSE kr
        fs2 == IF store_method = "Keyring" THEN fs ELSE w.store
    IN  IF did = 0 \/ env = "exchange_fail"
        THEN Out(p, kr, fs, Ret("login", From("ClientError"), ""), c1)
        ELSE IF ~w.ok THEN Out(p, kr, fs, Ret("login", From("ClientError"), ""), c2)
        ELSE LoginSetSession("login", p, kr2, fs2,
                 AuthSession(did, session_id, store_method, "AppPassword"), c2, env)

\* A login_oauth that writes the pointer as soon as the identifier is
\* resolved, before the authorization flow has run.
Authenticator_login_oauth_PointerBeforeFlow(p, kr, fs, ident, store_method, session_id, state, env) ==
    LET did == Resolve(ident)
        c0  == IF ident.form = "handle" THEN <<"resolver">> ELSE <<>>
        w   == AuthSessionStore_set_session(
                   p, AuthSession(did, session_id, store_method, "OAuth"), "ok")
        key == SessionKeyStr(did, session_id)
        blob == Blob(IF store_method = "Keyring" THEN "ClientSessionData" ELSE "OAuth",
                     IssuedToken)
    IN  IF did = 0 \/ (ident.form = "handle" /\ env = "resolve_fail")
        THEN Out(p, kr, fs, Ret("login", From("IdentityError"), ""), c0)
        ELSE IF env # "ok"
        THEN Out(w.pointer, kr, fs, Ret("login", From("OAuthError"), ""),
                 c0 \o <<"pointer.write", "remote">>)
        ELSE Out(w.pointer,
                 IF store_method = "Keyring" THEN [kr EXCEPT ![key] = blob] ELSE kr,
                 IF store_method = "Keyring" THEN fs ELSE [fs EXCEPT ![key] = blob],
                 Ret("login", "Ok", ""),
                 c0 \o <<"pointer.write", "remote", StoreName(store_method) \o ".set">>)

\* Authenticator::login_oauth: resolve the identifier, run
\* OAuthClient::login_with_local_server (which saves the authorization
\* request under authreq_<state>, and on the callback deletes it and upserts
\* the session under (did, session_id)), read the session id, write the
\* pointer.
Authenticator_login_oauth(p, kr, fs, ident, store_method, session_id, state, env) ==
    LET did == Resolve(ident)
        sn  == StoreName(store_method)
        c0  == IF ident.form = "handle" THEN <<"resolver">> ELSE <<>>
        c1  == Append(c0, "remote")
        c2  == Append(c1, sn \o ".set")
        c3  == c2 \o <<"remote", sn \o ".get", sn \o ".delete", sn \o ".set">>
        store == IF store_method = "Keyring" THEN kr ELSE fs
        sv  == IF store_method = "Keyring"
               THEN KeyringAuthStore_save_auth_req_info(
                        kr, state, Blob("AuthRequestData", IssuedToken), env = "store_fail")
               ELSE FileAuthStore_set(fs, AuthReqKeyStr(state),
                                      Blob("OAuthState", IssuedToken), env = "store_fail")
        dl  == IF store_method = "Keyring"
               THEN KeyringAuthStore_delete_auth_req_info(sv.store, state, FALSE)
               ELSE FileAuthStore_delete_auth_req_info(sv.store, state, FALSE)
        up  == IF store_method = "Keyring"
               THEN KeyringAuthStore_upsert_session(
                        dl.store, did, session_id,
                        Blob("ClientSessionData", IssuedToken), FALSE)
               ELSE FileAuthStore_set(dl.store, SessionKeyStr(did, session_id),
                                      Blob("OAuth", IssuedToken), FALSE)
        kept(st) == Out(p, IF store_method = "Keyring" THEN st ELSE kr,
                        IF store_method = "Keyring" THEN fs ELSE st,
                        Ret("login", From("OAuthError"), ""), c2)
    IN  IF did = 0 \/ (ident.form = "handle" /\ env = "resolve_fail")
        THEN Out(p, kr, fs, Ret("login", From("IdentityError"), ""), c0)
        ELSE IF env = "exchange_fail"
        THEN Out(p, kr, fs, Ret("login", From("OAuthError"), ""), c1)
        ELSE IF ~sv.ok THEN kept(store)
        ELSE IF env = "flow_abort" THEN kept(sv.store)
        ELSE IF env = "lock_fail"
        THEN Out(p, IF store_method = "Keyring" THEN up.store ELSE kr,
                 IF store_method = "Keyring" THEN fs ELSE up.store,
                 Ret("login", From("TryLockError"), ""), c3)
        ELSE LoginSetSession("login", p,
                 IF store_method = "Keyring" THEN up.store ELSE kr,
                 IF store_method = "Keyring" THEN fs ELSE up.store,
                 AuthSession(did, session_id, store_method, "OAuth"), c3, env)

\* A login whose password branch records the session id the backend handed
\* out in the pointer, although the session is stored under "session".
Authenticator_login_BackendSessionId(p, kr, fs, ident, store_method, password, session_id, state, env) ==
    IF password
    THEN LET o == Authenticator_login_app_password(p, kr, fs, ident, store_method, env)
         IN  IF o.ret.kind = "Ok"
             THEN [o EXCEPT !.pointer.session_id = session_id]
             ELSE o
    ELSE Authenticator_login_oauth(p, kr, fs, ident, store_method, session_id, state, env)

\* Authenticator::login: a password selects the direct exchange, no password
\* the OAuth flow.
Authenticator_login(p, kr, fs, ident, store_method, password, session_id, state, env) ==
    IF password
    THEN Authenticator_login_app_password(p, kr, fs, ident, store_method, env)
    ELSE Authenticator_login_oauth(p, kr, fs, ident, store_method, session_id, state, env)

\* ------------------------------------------------------------------------
\* Commands of main.rs
\* ------------------------------------------------------------------------

\* run_onyx, AuthCommands::Whoami: restore is called first and its result
\* kept, then get_session_info is called and its error returned; the status
\* line is "logged in" or "logged out" by the result of restore, the method
\* and the did come from get_session_info.
Cmd_whoami(p, kr, fs, env1, env2) ==
    LET session == Authenticator_restore(p, kr, fs, env1)
        info == Authenticator_get_session_info(
                    session.pointer, session.keyring, session.filestore, env2)
        c == session.calls \o info.calls
    IN  IF info.ret.kind # "Ok"
        THEN Out(info.pointer, info.keyring, info.filestore,
                 Ret("whoami", info.ret.kind, info.ret.msg), c)
        ELSE Out(info.pointer, info.keyring, info.filestore,
                 [Ret("whoami", "Ok",
                      IF session.ret.kind = "Ok" THEN "logged in" ELSE "logged out")
                  EXCEPT !.info = info.ret.info], c)

\* ------------------------------------------------------------------------
\* The credential session life cycle as a state machine
\* ------------------------------------------------------------------------

LoginEnvs ==
    {"ok", "resolve_fail", "exchange_fail", "store_fail", "flow_abort", "lock_fail",
     "ptr_write_fail", "ptr_write_partial"}

LogoutEnvs == {"ok", "ptr_read_fail", "store_fail", "ptr_remove_fail"}

RestoreEnvs == {"ok", "ptr_read_fail", "store_fail", "rejected"}

ReadEnvs == {"ok", "ptr_read_fail"}

Becomes(o) ==
    /\ ncalls < MaxCalls
    /\ ncalls' = ncalls + 1
    /\ prev' = ret
    /\ pointer' = o.pointer
    /\ keyring' = o.keyring
    /\ filestore' = o.filestore
    /\ ret' = o.ret
    /\ calls' = o.calls
    /\ UNCHANGED <<logfile, remote, stdout, statuses>>

Init ==
    /\ pointer = NoFile
    /\ keyring = EmptyStore
    /\ filestore = EmptyStore
    /\ ret = Ret("init", "Ok", "")
    /\ calls = <<>>
    /\ prev = Ret("init", "Ok", "")
    /\ ncalls = 0
    /\ logfile = NoLog
    /\ remote = <<>>
    /\ stdout = <<>>
    /\ statuses = NoStatuses

\* One login with the given arguments, in which the backend hands out
\* session_id and state and behaves as env says.
LoginCall(ident, store_method, password, session_id, state, env) ==
    Becomes(Authenticator_login(pointer, keyring, filestore, ident, store_method,
                                password, session_id, state, env))

Login ==
    \E ident \in Idents, store_method \in StoreMethods, password \in BOOLEAN,
       session_id \in OAuthSessionIds, state \in AuthReqStates, env \in LoginEnvs :
        LoginCall(ident, store_method, password, session_id, state, env)

LogoutCall(env) == Becomes(Authenticator_logout(pointer, keyring, filestore, env))

RestoreCall(env) == Becomes(Authenticator_restore(pointer, keyring, filestore, env))

GetSessionInfoCall(env) ==
    Becomes(Authenticator_get_session_info(pointer, keyring, filestore, env))

WhoamiCall(env1, env2) == Becomes(Cmd_whoami(pointer, keyring, filestore, env1, env2))

Logout ==
    \E env \in LogoutEnvs :
        LogoutCall(env)

Restore ==
    \E env \in RestoreEnvs :
        RestoreCall(env)

GetSessionInfo ==
    \E env \in ReadEnvs :
        GetSessionInfoCall(env)

Whoami ==
    \E env1 \in RestoreEnvs, env2 \in ReadEnvs :
        WhoamiCall(env1, env2)

Next == Login \/ Logout \/ Restore \/ GetSessionInfo \/ Whoami

Spec == Init /\ [][Next]_vars

\* ------------------------------------------------------------------------
\* The submission pipeline (Scrobbler) and the log parser it reads from
\* ------------------------------------------------------------------------

RECURSIVE ListenedTracks_KeepsSkipped(_, _)
\* A loop that makes a track of every entry, skipped ones included.
ListenedTracks_KeepsSkipped(entries, client_id) ==
    IF entries = <<>> THEN <<>>
    ELSE <<[track_name |-> Head(entries).track_name, client_id |-> client_id]>>
             \o ListenedTracks_KeepsSkipped(Tail(entries), client_id)

RECURSIVE ListenedTracks(_, _)
\* LogParser::parse, the loop over log.entries: skipped entries are dropped,
\* every other entry becomes one track carrying the log's client id.
ListenedTracks(entries, client_id) ==
    IF entries = <<>> THEN <<>>
    ELSE IF Head(entries).rating = "S"
         THEN ListenedTracks(Tail(entries), client_id)
         ELSE <<[track_name |-> Head(entries).track_name, client_id |-> client_id]>>
                  \o ListenedTracks(Tail(entries), client_id)

\* AudioScrobblerParser::parse followed by LogParser::parse: a file that
\* cannot be opened, a missing version header or an entry whose rating is
\* neither L nor S is an error.
LogParser_parse(file) ==
    IF file = RemovedLog THEN [ok |-> FALSE, tracks |-> <<>>]
    ELSE IF ~file.version THEN [ok |-> FALSE, tracks |-> <<>>]
    ELSE IF \E i \in 1..Len(file.entries) : file.entries[i].rating = "X"
         THEN [ok |-> FALSE, tracks |-> <<>>]
         ELSE [ok |-> TRUE, tracks |-> ListenedTracks(file.entries, file.client_id)]

\* Scrobbler::generate_client_agent: "<service>/<version> (<id>)" or
\* "<service>/<version>".
\* The string is kept as the pieces format! puts together; service and
\* version are what main.rs hands to Scrobbler::new.
generate_client_agent(id) ==
    IF id # <<>> THEN <<"onyx", "/", "version", " (", id[1], ")">>
    ELSE <<"onyx", "/", "version">>

\* A generate_play that names the client only when the track has a client id.
generate_play_AgentOnlyWithId(track) ==
    [track_name |-> track.track_name,
     music_service_base_domain |-> <<"local">>,
     submission_client_agent |->
         IF track.client_id # <<>> THEN <<generate_client_agent(track.client_id)>>
         ELSE <<>>]

\* Scrobbler::generate_play
generate_play(track) ==
    [track_name |-> track.track_name,
     music_service_base_domain |-> <<"local">>,
     submission_client_agent |-> <<generate_client_agent(track.client_id)>>]

\* One printed line.
Line(tag, text, a, b) == [tag |-> tag, text |-> text, a |-> a, b |-> b]

\* A scrobble_track whose error does not name the track.
Scrobbler_scrobble_track_Unnamed(track, accepted) ==
    [ok |-> accepted,
     err |-> "",
     request |-> [play |-> generate_play(track), accepted |-> accepted],
     line |-> Line(IF accepted THEN "ok" ELSE "fail", track.track_name, 0, 0)]

\* Scrobbler::scrobble_track: one create_record request; the line printed
\* and the error returned both carry the track name.
Scrobbler_scrobble_track(track, accepted) ==
    LET name == track.track_name
    IN  [ok |-> accepted,
         err |-> name,
         request |-> [play |-> generate_play(track), accepted |-> accepted],
         line |-> Line(IF accepted THEN "ok" ELSE "fail", name, 0, 0)]

RECURSIVE SubmitLoopAbort(_, _, _, _)
\* A loop that propagates the first error with `?` and stops there.
SubmitLoopAbort(tracks, outcomes, i, acc) ==
    IF i > Len(tracks) THEN acc
    ELSE LET r == Scrobbler_scrobble_track(tracks[i], outcomes[i])
             next == [remote |-> Append(acc.remote, r.request),
                      stdout |-> Append(acc.stdout, r.line),
                      calls  |-> acc.calls \o <<"remote.create_record", "stdout.outcome">>,
                      errors |-> IF r.ok THEN acc.errors ELSE Append(acc.errors, r.err)]
         IN  IF r.ok THEN SubmitLoopAbort(tracks, outcomes, i + 1, next) ELSE next

RECURSIVE SubmitLoopErrorsReversed(_, _, _, _)
\* A loop that puts the newest error in front of the older ones.
SubmitLoopErrorsReversed(tracks, outcomes, i, acc) ==
    IF i > Len(tracks) THEN acc
    ELSE LET r == Scrobbler_scrobble_track(tracks[i], outcomes[i])
         IN  SubmitLoopErrorsReversed(tracks, outcomes, i + 1,
                 [remote |-> Append(acc.remote, r.request),
                  stdout |-> Append(acc.stdout, r.line),
                  calls  |-> acc.calls \o <<"remote.create_record", "stdout.outcome">>,
                  errors |-> IF r.ok THEN acc.errors ELSE <<r.err>> \o acc.errors])

RECURSIVE SubmitLoopRetriesFailed(_, _, _, _)
\* A loop that sends a refused request a second time before it goes on.
SubmitLoopRetriesFailed(tracks, outcomes, i, acc) ==
    IF i > Len(tracks) THEN acc
    ELSE LET r == Scrobbler_scrobble_track(tracks[i], outcomes[i])
         IN  SubmitLoopRetriesFailed(tracks, outcomes, i + 1,
                 [remote |-> IF r.ok THEN Append(acc.remote, r.request)
                             ELSE acc.remote \o <<r.request, r.request>>,
                  stdout |-> Append(acc.stdout, r.line),
                  calls  |-> acc.calls \o <<"remote.create_record", "stdout.outcome">>,
                  errors |-> IF r.ok THEN acc.errors ELSE Append(acc.errors, r.err)])

RECURSIVE SubmitLoopRepeatsAccepted(_, _, _, _)
\* A loop that sends an accepted request once more to make sure.
SubmitLoopRepeatsAccepted(tracks, outcomes, i, acc) ==
    IF i > Len(tracks) THEN acc
    ELSE LET r == Scrobbler_scrobble_track(tracks[i], outcomes[i])
         IN  SubmitLoopRepeatsAccepted(tracks, outcomes, i + 1,
                 [remote |-> IF r.ok THEN acc.remote \o <<r.request, r.request>>
                             ELSE Append(acc.remote, r.request),
                  stdout |-> Append(acc.stdout, r.line),
                  calls  |-> acc.calls \o
                             (IF r.ok
                              THEN <<"remote.create_record", "remote.create_record",
                                     "stdout.outcome">>
                              ELSE <<"remote.create_record", "stdout.outcome">>),
                  errors |-> IF r.ok THEN acc.errors ELSE Append(acc.errors, r.err)])

RECURSIVE SubmitLoop(_, _, _, _)
\* Scrobbler::scrobble_logfile, the loop over tracks: every track is
\* submitted and its outcome printed before the next one is taken (the
\* loop awaits scrobble_track), the error of a failed one is pushed to
\* errors.
SubmitLoop(tracks, outcomes, i, acc) ==
    IF i > Len(tracks) THEN acc
    ELSE LET r == Scrobbler_scrobble_track(tracks[i], outcomes[i])
         IN  SubmitLoop(tracks, outcomes, i + 1,
                 [remote |-> Append(acc.remote, r.request),
                  stdout |-> Append(acc.stdout, r.line),
                  calls  |-> acc.calls \o <<"remote.create_record", "stdout.outcome">>,
                  errors |-> IF r.ok THEN acc.errors ELSE Append(acc.errors, r.err)])

\* A scrobble_logfile that prints the failures but returns Ok.
Scrobbler_scrobble_logfile_AlwaysOk(file, outcomes) ==
    LET parsed == LogParser_parse(file)
        first == <<Line("scrobbling log", "", 0, 0)>>
        count == Len(parsed.tracks)
        fails == {i \in 1..count : ~outcomes[i]}
        names == [i \in 1..count |-> parsed.tracks[i].track_name]
        reqs == [i \in 1..count |->
                    [play |-> generate_play(parsed.tracks[i]), accepted |-> outcomes[i]]]
        lines == [i \in 1..count |->
                    Line(IF outcomes[i] THEN "ok" ELSE "fail", names[i], 0, 0)]
        trace == [i \in 1..(2 * count) |->
                    IF i % 2 = 1 THEN "remote.create_record" ELSE "stdout.outcome"]
        failed == SelectSeq(lines, LAMBDA l : l.tag = "fail")
    IN  IF ~parsed.ok
        THEN [ret |-> Ret("scrobble_logfile", From("ParserError"), ""),
              remote |-> <<>>, stdout |-> first, calls |-> <<>>]
        ELSE IF fails # {}
        THEN [ret |-> Ret("scrobble_logfile", "Ok", ""),
              remote |-> reqs, calls |-> trace,
              stdout |-> first \o lines \o <<Line("errors", "", 0, 0)>>
                           \o [i \in 1..Len(failed) |-> Line("error", failed[i].text, 0, 0)]
                           \o <<Line("summary", "", count - Len(failed), Len(failed))>>]
        ELSE [ret |-> Ret("scrobble_logfile", "Ok", ""),
              remote |-> reqs, calls |-> trace,
              stdout |-> first \o lines \o <<Line("success", "", count, 0)>>]

\* A scrobble_logfile whose summary reports the total as the submitted count.
Scrobbler_scrobble_logfile_TotalAsSubmitted(file, outcomes) ==
    LET parsed == LogParser_parse(file)
        first == <<Line("scrobbling log", "", 0, 0)>>
        count == Len(parsed.tracks)
        fails == {i \in 1..count : ~outcomes[i]}
        names == [i \in 1..count |-> parsed.tracks[i].track_name]
        reqs == [i \in 1..count |->
                    [play |-> generate_play(parsed.tracks[i]), accepted |-> outcomes[i]]]
        lines == [i \in 1..count |->
                    Line(IF outcomes[i] THEN "ok" ELSE "fail", names[i], 0, 0)]
        trace == [i \in 1..(2 * count) |->
                    IF i % 2 = 1 THEN "remote.create_record" ELSE "stdout.outcome"]
        failed == SelectSeq(lines, LAMBDA l : l.tag = "fail")
    IN  IF ~parsed.ok
        THEN [ret |-> Ret("scrobble_logfile", From("ParserError"), ""),
              remote |-> <<>>, stdout |-> first, calls |-> <<>>]
        ELSE IF fails # {}
        THEN [ret |-> Ret("scrobble_logfile", "Other", "failed to scrobble log file"),
              remote |-> reqs, calls |-> trace,
              stdout |-> first \o lines \o <<Line("errors", "", 0, 0)>>
                           \o [i \in 1..Len(failed) |-> Line("error", failed[i].text, 0, 0)]
                           \o <<Line("summary", "", count, Len(failed))>>]
        ELSE [ret |-> Ret("scrobble_logfile", "Ok", ""),
              remote |-> reqs, calls |-> trace,
              stdout |-> first \o lines \o <<Line("success", "", count, 0)>>]

\* Scrobbler::scrobble_logfile
Scrobbler_scrobble_logfile(file, outcomes) ==
    LET parsed == LogParser_parse(file)
        first == <<Line("scrobbling log", "", 0, 0)>>
        count == Len(parsed.tracks)
        done == SubmitLoop(parsed.tracks, outcomes, 1,
                           [remote |-> <<>>, stdout |-> first, calls |-> <<>>,
                            errors |-> <<>>])
        errors == done.errors
    IN  IF ~parsed.ok
        THEN [ret |-> Ret("scrobble_logfile", From("ParserError"), ""),
              remote |-> <<>>, stdout |-> first, calls |-> <<>>]
        ELSE IF errors # <<>>
        THEN [ret |-> Ret("scrobble_logfile", "Other", "failed to scrobble log file"),
              remote |-> done.remote, calls |-> done.calls,
              stdout |-> done.stdout \o <<Line("errors", "", 0, 0)>>
                           \o [i \in 1..Len(errors) |-> Line("error", errors[i], 0, 0)]
                           \o <<Line("summary", "", count - Len(errors), Len(errors))>>]
        ELSE [ret |-> Ret("scrobble_logfile", "Ok", ""),
              remote |-> done.remote, calls |-> done.calls,
              stdout |-> Append(done.stdout, Line("success", "", count, 0))]

Submits(o) ==
    /\ ncalls < MaxRuns
    /\ ncalls' = ncalls + 1
    /\ prev' = ret
    /\ ret' = o.ret
    /\ remote' = o.remote
    /\ stdout' = o.stdout
    /\ calls' = o.calls
    /\ UNCHANGED <<pointer, keyring, filestore, logfile, statuses>>

InitScrobble ==
    /\ pointer = NoFile
    /\ keyring = EmptyStore
    /\ filestore = EmptyStore
    /\ ret = Ret("init", "Ok", "")
    /\ prev = Ret("init", "Ok", "")
    /\ calls = <<>>
    /\ ncalls = 0
    /\ logfile \in LogFiles
    /\ remote = <<>>
    /\ stdout = <<>>
    /\ statuses = NoStatuses

\* scrobble_track called on one track, the service answering as accepted says.
\* The call is one step: its outcome is computed when the step is taken,
\* from the track and the answer, and handed to Submits whole.
ScrobbleTrackCall(name, client_id, accepted) ==
    /\ ncalls < MaxRuns
    /\ LET r == Scrobbler_scrobble_track(
                    [track_name |-> name, client_id |-> client_id], accepted)
       IN  Submits([ret |-> [IF r.ok THEN Ret("scrobble_track", "Ok", "")
                             ELSE Ret("scrobble_track", "Other", r.err)
                                EXCEPT !.arg = <<name, client_id>>],
                    remote |-> <<r.request>>,
                    stdout |-> <<r.line>>,
                    calls |-> <<"remote.create_record", "stdout.outcome">>])

ScrobbleTrack ==
    \E name \in TrackNames, client_id \in ClientIds, accepted \in BOOLEAN :
        ScrobbleTrackCall(name, client_id, accepted)

\* scrobble_logfile called on the log file, the service answering the i-th
\* request as outcomes[i] says.
ScrobbleLogfileCall(outcomes) ==
    Submits(Scrobbler_scrobble_logfile(logfile, outcomes))

ScrobbleLogfile ==
    \E outcomes \in [1..MaxEntries -> BOOLEAN] :
        ScrobbleLogfileCall(outcomes)

NextScrobble == ScrobbleTrack \/ ScrobbleLogfile

SpecScrobble == InitScrobble /\ [][NextScrobble]_vars

\* ------------------------------------------------------------------------
\* scrobble_logfile invoked a second time on the same log file
\* ------------------------------------------------------------------------

\* The answers of the service to the requests of one run over file: one per
\* parsed track (a file that does not parse sends none).
AnswersTo(file) == [1..Len(LogParser_parse(file).tracks) -> BOOLEAN]

\* The state a first invocation of scrobble_logfile leaves: the Scrobbler
\* holds service, version and agent only, the log file is as it was, and
\* the requests of the run are at the service.  ret.val keeps the requests
\* the run sent next to its result.
AfterRun(file, o) ==
    /\ pointer = NoFile
    /\ keyring = EmptyStore
    /\ filestore = EmptyStore
    /\ ret = [o.ret EXCEPT !.val = o.remote]
    /\ prev = Ret("init", "Ok", "")
    /\ calls = o.calls
    /\ ncalls = 1
    /\ logfile = file
    /\ remote = o.remote
    /\ stdout = o.stdout
    /\ statuses = NoStatuses

InitRerun ==
    \E file \in LogFiles :
        \E outcomes \in AnswersTo(file) :
            AfterRun(file, Scrobbler_scrobble_logfile(file, outcomes))

\* The second invocation: scrobble_logfile(path, format) reads the file
\* again and runs the same loop; nothing of the first run is an input.
ScrobbleLogfileAgainCall(outcomes) ==
    LET o == Scrobbler_scrobble_logfile(logfile, outcomes)
    IN  /\ ncalls = 1
        /\ ncalls' = 2
        /\ prev' = ret
        /\ ret' = o.ret
        /\ remote' = o.remote
        /\ stdout' = o.stdout
        /\ calls' = o.calls
        /\ UNCHANGED <<pointer, keyring, filestore, logfile, statuses>>

ScrobbleLogfileAgain ==
    \E outcomes \in AnswersTo(logfile) : ScrobbleLogfileAgainCall(outcomes)

NextRerun == ScrobbleLogfileAgain

SpecRerun == InitRerun /\ [][NextRerun]_vars

\* ------------------------------------------------------------------------
\* The keyring store on its own: every operation of KeyringTokenStore and
\* KeyringAuthStore applied to every key
\* ------------------------------------------------------------------------

\* The call op(key) that answered r, leaving the keyring as r.store.
Stores(op, key, r) ==
    /\ ncalls < MaxStoreCalls
    /\ ncalls' = ncalls + 1
    /\ prev' = ret
    /\ ret' = [Ret(op, IF r.ok THEN "Ok" ELSE "SessionStoreError", "")
                 EXCEPT !.arg = key, !.val = r.val]
    /\ keyring' = r.store
    /\ calls' = <<"keyring." \o op>>
    /\ UNCHANGED <<pointer, filestore, logfile, remote, stdout, statuses>>

\* The call op(key, session): as Stores, and the call's record keeps the
\* session that was passed next to the key.
StoresSession(op, key, session, r) ==
    /\ ncalls < MaxStoreCalls
    /\ ncalls' = ncalls + 1
    /\ prev' = ret
    /\ ret' = [Ret(op, IF r.ok THEN "Ok" ELSE "SessionStoreError", "")
                 EXCEPT !.arg = <<key, session>>, !.val = r.val]
    /\ keyring' = r.store
    /\ calls' = <<"keyring." \o op>>
    /\ UNCHANGED <<pointer, filestore, logfile, remote, stdout, statuses>>

SessionKeys == Dids \X SessionIds

\* The type parameter T of a generic get.
StoredTypes == {"StoredPasswordSession", "StoredSession"}

TokenStoreGetCall(key, T, fault) ==
    Stores("get", key, KeyringTokenStore_get(keyring, key, T, fault))

TokenStoreGet ==
    \E key \in StoreKeys, T \in StoredTypes, fault \in BOOLEAN :
        TokenStoreGetCall(key, T, fault)

\* The values T a caller serializes into the keyring.
StoredValues ==
    {StoredPasswordSession(tok, d, AppPasswordSessionId, h) :
        tok \in Tokens, d \in Dids, h \in Dids}
        \cup {Blob(kind, tok) : kind \in {"OAuth", "OAuthState"}, tok \in Tokens}

TokenStoreSetCall(key, session, fault) ==
    StoresSession("set", key, session,
                  KeyringTokenStore_set(keyring, key, session, fault))

TokenStoreSet ==
    \E key \in StoreKeys, session \in StoredValues, fault \in BOOLEAN :
        TokenStoreSetCall(key, session, fault)

TokenStoreDelCall(key, fault) ==
    Stores("del", key, KeyringTokenStore_del(keyring, key, fault))

TokenStoreDel ==
    \E key \in StoreKeys, fault \in BOOLEAN :
        TokenStoreDelCall(key, fault)

AtpGetCall(k, fault) ==
    Stores("atp_get", SessionKeyStr(k[1], k[2]),
           AtpSessionStore_get(keyring, k[1], k[2], fault))

AtpGet ==
    \E k \in SessionKeys, fault \in BOOLEAN :
        AtpGetCall(k, fault)

AtpSessions == {AtpSession(tok, d, h) : tok \in Tokens, d \in Dids, h \in Dids}

AtpSetCall(k, session, fault) ==
    StoresSession("atp_set", SessionKeyStr(k[1], k[2]), session,
                  AtpSessionStore_set(keyring, k[1], k[2], session, fault))

AtpSet ==
    \E k \in SessionKeys, session \in AtpSessions, fault \in BOOLEAN :
        AtpSetCall(k, session, fault)

AtpDelCall(k, fault) ==
    Stores("atp_del", SessionKeyStr(k[1], k[2]),
           AtpSessionStore_del(keyring, k[1], k[2], fault))

AtpDel ==
    \E k \in SessionKeys, fault \in BOOLEAN :
        AtpDelCall(k, fault)

GetSession ==
    \E k \in SessionKeys, fault \in BOOLEAN :
        Stores("get_session", SessionKeyStr(k[1], k[2]),
               KeyringAuthStore_get_session(keyring, k[1], k[2], fault))

UpsertSession ==
    \E k \in SessionKeys, tok \in Tokens, fault \in BOOLEAN :
        Stores("upsert_session", SessionKeyStr(k[1], k[2]),
               KeyringAuthStore_upsert_session(
                   keyring, k[1], k[2], Blob("ClientSessionData", tok), fault))

DeleteSessionCall(k, fault) ==
    Stores("delete_session", SessionKeyStr(k[1], k[2]),
           KeyringAuthStore_delete_session(keyring, k[1], k[2], fault))

DeleteSession ==
    \E k \in SessionKeys, fault \in BOOLEAN :
        DeleteSessionCall(k, fault)

GetAuthReqInfo ==
    \E state \in AuthReqStates, fault \in BOOLEAN :
        Stores("get_auth_req_info", AuthReqKeyStr(state),
               KeyringAuthStore_get_auth_req_info(keyring, state, fault))

SaveAuthReqInfo ==
    \E state \in AuthReqStates, tok \in Tokens, fault \in BOOLEAN :
        Stores("save_auth_req_info", AuthReqKeyStr(state),
               KeyringAuthStore_save_auth_req_info(
                   keyring, state, Blob("AuthRequestData", tok), fault))

DeleteAuthReqInfoCall(state, fault) ==
    Stores("delete_auth_req_info", AuthReqKeyStr(state),
           KeyringAuthStore_delete_auth_req_info(keyring, state, fault))

DeleteAuthReqInfo ==
    \E state \in AuthReqStates, fault \in BOOLEAN :
        DeleteAuthReqInfoCall(state, fault)

NextKeyring ==
    \/ TokenStoreGet \/ TokenStoreSet \/ TokenStoreDel
    \/ AtpGet \/ AtpSet \/ AtpDel
    \/ GetSession \/ UpsertSession \/ DeleteSession
    \/ GetAuthReqInfo \/ SaveAuthReqInfo \/ DeleteAuthReqInfo

\* The keyring as earlier runs left it: without entries, or holding the
\* password session that a login of every account stored.
KeptStore ==
    [key \in StoreKeys |->
        IF \E d \in Dids : key = SessionKeyStr(d, AppPasswordSessionId)
        THEN LET d == CHOOSE d \in Dids : key = SessionKeyStr(d, AppPasswordSessionId)
             IN  StoredPasswordSession(IssuedToken, d, AppPasswordSessionId, d)
        ELSE NoEntry]

InitKeyring ==
    /\ pointer = NoFile
    /\ keyring \in {EmptyStore, KeptStore}
    /\ filestore = EmptyStore
    /\ ret = Ret("init", "Ok", "")
    /\ calls = <<>>
    /\ prev = Ret("init", "Ok", "")
    /\ ncalls = 0
    /\ logfile = NoLog
    /\ remote = <<>>
    /\ stdout = <<>>
    /\ statuses = NoStatuses

SpecKeyring == InitKeyring /\ [][NextKeyring]_vars

\* ------------------------------------------------------------------------
\* The session handle (GenericSession) a command works with after restore
\* ------------------------------------------------------------------------

\* ClientError::transport(source): the transport library's error of kind
\* Transport, without context.
ClientError_transport(source) ==
    [type |-> "ClientError", kind |-> "Transport", context |-> "", source |-> source]

\* ClientError::with_context
with_context(err, context) == [err EXCEPT !.context = context]

\* GenericSession::refresh: every variant forwards to the inner session and
\* maps its error with ClientError::transport(e).with_context(..).
GenericSession_refresh(variant, fails) ==
    IF ~fails THEN [ok |-> TRUE, err |-> with_context(ClientError_transport(""), "")]
    ELSE IF variant \in {"KeyringOAuth", "FileOAuth"}
    THEN [ok |-> FALSE,
          err |-> with_context(ClientError_transport("refresh"),
                               "OAuth token refresh failed")]
    ELSE [ok |-> FALSE,
          err |-> with_context(ClientError_transport("refresh"),
                               "App password token refresh failed")]

\* GenericSession::send_http: every variant forwards to the inner session
\* and maps its error to OnyxError::Auth.
GenericSession_send_http(variant, fails) ==
    IF fails THEN [ok |-> FALSE, kind |-> "Auth"] ELSE [ok |-> TRUE, kind |-> "Ok"]

\* The session handle a command holds: the state after a login and a
\* restore that both succeeded.
InitSession ==
    \E ident \in Idents, store_method \in StoreMethods, password \in BOOLEAN,
       session_id \in OAuthSessionIds, state \in AuthReqStates :
        LET o == Authenticator_login(NoFile, EmptyStore, EmptyStore, ident,
                                     store_method, password, session_id, state, "ok")
            r == Authenticator_restore(o.pointer, o.keyring, o.filestore, "ok")
        IN  /\ o.ret.kind = "Ok"
            /\ r.ret.kind = "Ok"
            /\ pointer = r.pointer
            /\ keyring = r.keyring
            /\ filestore = r.filestore
            /\ ret = r.ret
            /\ prev = o.ret
            /\ calls = r.calls
            /\ ncalls = 0
            /\ logfile = NoLog
            /\ remote = <<>>
            /\ stdout = <<>>
            /\ statuses = NoStatuses

\* A call on the session handle that returned r; the handle stays the one
\* restore returned (ret.variant, ret.info).
Answers(r, c) ==
    /\ ncalls < MaxCalls
    /\ ncalls' = ncalls + 1
    /\ prev' = ret
    /\ ret' = [r EXCEPT !.variant = ret.variant, !.info = ret.info]
    /\ calls' = c
    /\ UNCHANGED <<pointer, logfile, remote, stdout, statuses>>

\* refresh: a failure changes no store; a success lets the inner session
\* save the refreshed token under the session's key in its store.
SessionRefreshCall(fails, tok) ==
    LET r == GenericSession_refresh(ret.variant, fails)
        key == SessionKeyStr(pointer.did, pointer.session_id)
    IN  IF ~r.ok
        THEN /\ Answers([Ret("refresh", r.err.type, r.err.context)
                            EXCEPT !.val = <<r.err.kind>>], <<"remote">>)
             /\ UNCHANGED <<keyring, filestore>>
        ELSE /\ Answers(Ret("refresh", "Ok", ""),
                        <<"remote", StoreName(pointer.store) \o ".set">>)
             /\ keyring' = IF pointer.store = "Keyring"
                           THEN [keyring EXCEPT ![key].tok = tok] ELSE keyring
             /\ filestore' = IF pointer.store = "Keyring"
                             THEN filestore ELSE [filestore EXCEPT ![key].tok = tok]

SessionRefresh ==
    \E fails \in BOOLEAN, tok \in Tokens :
        SessionRefreshCall(fails, tok)

SessionSendHttpCall(fails) ==
    LET r == GenericSession_send_http(ret.variant, fails)
    IN  /\ Answers(Ret("send_http", r.kind, ""), <<"remote">>)
        /\ UNCHANGED <<keyring, filestore>>

SessionSendHttp ==
    \E fails \in BOOLEAN :
        SessionSendHttpCall(fails)

SessionKind ==
    /\ Answers([Ret("session_kind", "Ok", "") EXCEPT !.val = <<session_kind(ret.variant)>>],
               <<>>)
    /\ UNCHANGED <<keyring, filestore>>

SessionInfo ==
    /\ Answers([Ret("session_info", "Ok", "")
                   EXCEPT !.val = <<session_info(ret.variant, ret.info.did,
                                                 ret.info.session_id)>>], <<>>)
    /\ UNCHANGED <<keyring, filestore>>

NextSession == SessionRefresh \/ SessionSendHttp \/ SessionKind \/ SessionInfo

SpecSession == InitSession /\ [][NextSession]_vars

\* ------------------------------------------------------------------------
\* The command "scrobble logfile" of run_onyx
\* ------------------------------------------------------------------------

\* What a command ends in: the stores, the log file, the requests sent, the
\* lines printed, the result of restore (session) and of the command (ret).
CmdOut(o, session, r, file, rem, out, c) ==
    [pointer |-> o.pointer, keyring |-> o.keyring, filestore |-> o.filestore,
     session |-> session, ret |-> r, logfile |-> file, remote |-> rem, stdout |-> out,
     calls |-> c]

\* A Logfile command that goes on to scrobble when restore has failed.
Cmd_scrobble_logfile_IgnoresRestore(p, kr, fs, file, env, outcomes, delete, rmfails) ==
    LET session == Authenticator_restore(p, kr, fs, env)
        run == Scrobbler_scrobble_logfile(file, outcomes)
    IN  CmdOut(session, session.ret,
               Ret("cmd_logfile", IF session.ret.kind # "Ok" THEN session.ret.kind
                                  ELSE run.ret.kind, ""),
               file, run.remote, run.stdout, session.calls \o run.calls)

\* A Logfile command that removes the log with --delete before it looks at
\* the result of scrobble_logfile.
Cmd_scrobble_logfile_DeletesFirst(p, kr, fs, file, env, outcomes, delete, rmfails) ==
    LET session == Authenticator_restore(p, kr, fs, env)
        run == Scrobbler_scrobble_logfile(file, outcomes)
        c == session.calls \o run.calls
    IN  IF session.ret.kind # "Ok"
        THEN CmdOut(session, session.ret,
                    Ret("cmd_logfile", session.ret.kind, session.ret.msg),
                    file, <<>>, <<>>, session.calls)
        ELSE IF ~delete
        THEN CmdOut(session, session.ret, Ret("cmd_logfile", run.ret.kind, run.ret.msg),
                    file, run.remote, run.stdout, c)
        ELSE IF rmfails
        THEN CmdOut(session, session.ret, Ret("cmd_logfile", From("io::Error"), ""),
                    file, run.remote, run.stdout, Append(c, "logfile.remove"))
        ELSE CmdOut(session, session.ret, Ret("cmd_logfile", run.ret.kind, run.ret.msg),
                    RemovedLog, run.remote,
                    Append(run.stdout, Line("deleted log", "", 0, 0)),
                    Append(c, "logfile.remove"))

\* run_onyx, ScrobbleCommands::Logfile: get_session (restore) with `?`,
\* then scrobble_logfile with `?`, then with --delete the log file is
\* removed and a line printed.
Cmd_scrobble_logfile(p, kr, fs, file, env, outcomes, delete, rmfails) ==
    LET session == Authenticator_restore(p, kr, fs, env)
        run == Scrobbler_scrobble_logfile(file, outcomes)
        c == session.calls \o run.calls
    IN  IF session.ret.kind # "Ok"
        THEN CmdOut(session, session.ret,
                    Ret("cmd_logfile", session.ret.kind, session.ret.msg),
                    file, <<>>, <<>>, session.calls)
        ELSE IF run.ret.kind # "Ok"
        THEN CmdOut(session, session.ret, Ret("cmd_logfile", run.ret.kind, run.ret.msg),
                    file, run.remote, run.stdout, c)
        ELSE IF ~delete
        THEN CmdOut(session, session.ret, Ret("cmd_logfile", "Ok", ""),
                    file, run.remote, run.stdout, c)
        ELSE IF rmfails
        THEN CmdOut(session, session.ret, Ret("cmd_logfile", From("io::Error"), ""),
                    file, run.remote, run.stdout, Append(c, "logfile.remove"))
        ELSE CmdOut(session, session.ret, Ret("cmd_logfile", "Ok", ""),
                    RemovedLog, run.remote,
                    Append(run.stdout, Line("deleted log", "", 0, 0)),
                    Append(c, "logfile.remove"))

\* The machine before the command: logged out, or logged in by a login
\* that succeeded, with any log file on disk.
InitLogfile ==
    /\ \/ /\ pointer = NoFile
          /\ keyring = EmptyStore
          /\ filestore = EmptyStore
       \/ \E store_method \in StoreMethods, password \in BOOLEAN :
              LET o == Authenticator_login(
                           NoFile, EmptyStore, EmptyStore,
                           CHOOSE ident \in Idents : ident.form = "did",
                           store_method, password,
                           CHOOSE session_id \in OAuthSessionIds : TRUE,
                           CHOOSE state \in AuthReqStates : TRUE, "ok")
              IN  /\ o.ret.kind = "Ok"
                  /\ pointer = o.pointer
                  /\ keyring = o.keyring
                  /\ filestore = o.filestore
    /\ ret = Ret("init", "Ok", "")
    /\ prev = Ret("init", "Ok", "")
    /\ calls = <<>>
    /\ ncalls = 0
    /\ logfile \in LogFiles
    /\ remote = <<>>
    /\ stdout = <<>>
    /\ statuses = NoStatuses

\* The command runs once in its process; prev keeps what restore returned.
LogfileCommandCall(env, outcomes, delete, rmfails) ==
    LET o == Cmd_scrobble_logfile(pointer, keyring, filestore, logfile, env, outcomes,
                                  delete, rmfails)
    IN  /\ ncalls = 0
        /\ ncalls' = ncalls + 1
        /\ pointer' = o.pointer
        /\ keyring' = o.keyring
        /\ filestore' = o.filestore
        /\ prev' = o.session
        /\ ret' = o.ret
        /\ logfile' = o.logfile
        /\ remote' = o.remote
        /\ stdout' = o.stdout
        /\ calls' = o.calls
        /\ UNCHANGED statuses

\* The answers of the service that matter to a run over n requests.
OutcomesFor(n) == {f \in [1..MaxEntries -> BOOLEAN] : \A i \in 1..MaxEntries : i > n => f[i]}

\* Every behaviour of the backend and of the file system the command can
\* meet; choices the command never gets to are not enumerated.
LogfileCommand ==
    /\ ncalls = 0
    /\ \E env \in RestoreEnvs :
        LET restored == Authenticator_restore(pointer, keyring, filestore, env).ret.kind = "Ok"
            parsed == LogParser_parse(logfile)
            n == IF restored /\ parsed.ok THEN Len(parsed.tracks) ELSE 0
        IN  \E outcomes \in OutcomesFor(n) :
                \E delete \in BOOLEAN :
                    \E rmfails \in (IF delete /\ restored /\ parsed.ok
                                    THEN BOOLEAN ELSE {FALSE}) :
                        LogfileCommandCall(env, outcomes, delete, rmfails)

NextLogfile == LogfileCommand

SpecLogfile == InitLogfile /\ [][NextLogfile]_vars

\* ------------------------------------------------------------------------
\* main: how the result of run_onyx is reported
\* ------------------------------------------------------------------------

\* The variants of OnyxError: those of error.rs, and Auth and Parse, which
\* auth.rs and main.rs construct.
OnyxErrorKinds ==
    {"AuthStore", "SessionStore", "Io", "Serde", "Identity", "OAuthError", "ClientError",
     "AgentError", "ParserError", "Other", "Auth", "Parse"}

\* The commands run_onyx dispatches.
Commands ==
    {"login", "logout", "whoami", "scrobble_track", "scrobble_logfile", "status"}

\* A handle_error that prints the hint for every error.
handle_error_HintAlways(e) ==
    <<Line("error", e.kind, 0, 0), Line("hint", "try logging in", 0, 0)>>

\* handle_error: the error line, and for OnyxError::Auth the hint line.
handle_error(e) ==
    IF e.kind = "Auth"
    THEN <<Line("error", e.kind, 0, 0), Line("hint", "try logging in", 0, 0)>>
    ELSE <<Line("error", e.kind, 0, 0)>>

\* main: an Err of run_onyx is handed to handle_error and the process
\* exits with status 1; an Ok ends the process with status 0.
main(r) ==
    IF r.kind # "Ok"
    THEN [stdout |-> handle_error(r), status |-> 1]
    ELSE [stdout |-> <<>>, status |-> 0]

\* run_onyx has returned, for any command, Ok or an error of any variant.
InitMain ==
    /\ pointer = NoFile
    /\ keyring = EmptyStore
    /\ filestore = EmptyStore
    /\ ret \in {Ret(cmd, kind, msg) : cmd \in Commands,
                 kind \in OnyxErrorKinds \cup {"Ok"}, msg \in {"", "not logged in"}}
    /\ prev = Ret("init", "Ok", "")
    /\ calls = <<>>
    /\ ncalls = 0
    /\ logfile = NoLog
    /\ remote = <<>>
    /\ stdout = <<>>
    /\ statuses = NoStatuses

\* The process reports the result and exits.
Main ==
    LET m == main(ret)
    IN  /\ ret.op # "exit"
        /\ ret' = [Ret("exit", ret.kind, ret.msg) EXCEPT !.val = <<m.status>>]
        /\ prev' = ret
        /\ stdout' = m.stdout
        /\ ncalls' = ncalls + 1
        /\ UNCHANGED <<pointer, keyring, filestore, calls, logfile, remote, statuses>>

NextMain == Main

SpecMain == InitMain /\ [][NextMain]_vars

\* ------------------------------------------------------------------------
\* parse_artist_list of main.rs
\* ------------------------------------------------------------------------

\* The characters of an argument string: letters, the blank and the comma.
Chars == {"a", "b", " ", ","}

RECURSIVE StringsUpTo(_)
StringsUpTo(n) ==
    IF n = 0 THEN {<<>>}
    ELSE LET shorter == StringsUpTo(n - 1)
         IN  shorter \cup {Append(str, c) : str \in shorter, c \in Chars}

\* An Option<String> argument: None is <<>>, Some(str) is <<str>>.
OptStrings == {<<>>} \cup {<<str>> : str \in StringsUpTo(MaxStrLen)}

RECURSIVE split(_)
\* str::split(","): the pieces between the commas, empty pieces included;
\* a string without a comma is one piece.
split(str) ==
    IF \A i \in 1..Len(str) : str[i] # ","
    THEN <<str>>
    ELSE LET i == CHOOSE i \in 1..Len(str) :
                      str[i] = "," /\ \A j \in 1..(i - 1) : str[j] # ","
         IN  <<SubSeq(str, 1, i - 1)>> \o split(SubSeq(str, i + 1, Len(str)))

RECURSIVE trim(_)
\* str::trim: the string without its leading and trailing whitespace.
trim(str) ==
    IF str = <<>> THEN <<>>
    ELSE IF Head(str) = " " THEN trim(Tail(str))
    ELSE IF str[Len(str)] = " " THEN trim(SubSeq(str, 1, Len(str) - 1))
    ELSE str

Artist(artist_name, artist_mb_id) ==
    [artist_name |-> artist_name, artist_mb_id |-> artist_mb_id]

RECURSIVE PushNames(_, _)
\* parse_artist_list, the loop over the names: a name that is empty after
\* trim is skipped, every other is pushed without an id.
PushNames(names, artists) ==
    IF names = <<>> THEN artists
    ELSE LET name == trim(Head(names))
         IN  IF name = <<>> THEN PushNames(Tail(names), artists)
             ELSE PushNames(Tail(names), Append(artists, Artist(name, <<>>)))

RECURSIVE SetIds(_, _, _)
\* parse_artist_list, the loop over 0..mb_ids.len(): the id at i, if not
\* empty after trim, becomes the id of artists[i].
SetIds(mb_ids, artists, i) ==
    IF i > Len(mb_ids) THEN artists
    ELSE LET id == trim(mb_ids[i])
         IN  SetIds(mb_ids,
                    IF id # <<>> THEN [artists EXCEPT ![i].artist_mb_id = <<id>>]
                    ELSE artists,
                    i + 1)

\* What parse_artist_list returns: Ok(val) with val the Option of the list,
\* or Err(OnyxError::Parse).
ParseOk(val) == [ok |-> TRUE, kind |-> "Ok", val |-> val]

ParseErr == [ok |-> FALSE, kind |-> "Parse", val |-> <<>>]

\* A parse_artist_list that does not trim the ids.
parse_artist_list_UntrimmedIds(artist_names, artist_mb_ids) ==
    IF artist_names = <<>> THEN ParseOk(<<>>)
    ELSE LET artists == PushNames(split(artist_names[1]), <<>>)
         IN  IF artist_mb_ids = <<>> THEN ParseOk(<<artists>>)
             ELSE LET mb_ids == split(artist_mb_ids[1])
                  IN  IF Len(mb_ids) > Len(artists) THEN ParseErr
                      ELSE ParseOk(<<[i \in 1..Len(artists) |->
                                        IF i <= Len(mb_ids) /\ mb_ids[i] # <<>>
                                        THEN Artist(artists[i].artist_name, <<mb_ids[i]>>)
                                        ELSE artists[i]]>>)

\* parse_artist_list
parse_artist_list(artist_names, artist_mb_ids) ==
    IF artist_names = <<>> THEN ParseOk(<<>>)
    ELSE LET artists == PushNames(split(artist_names[1]), <<>>)
         IN  IF artist_mb_ids = <<>> THEN ParseOk(<<artists>>)
             ELSE LET mb_ids == split(artist_mb_ids[1])
                  IN  IF Len(mb_ids) > Len(artists) THEN ParseErr
                      ELSE ParseOk(<<SetIds(mb_ids, artists, 1)>>)

\* The arguments --artist-names and --artist-mb-ids of one invocation.
InitArtists ==
    /\ pointer = NoFile
    /\ keyring = EmptyStore
    /\ filestore = EmptyStore
    /\ \E artist_names \in OptStrings, artist_mb_ids \in OptStrings :
           ret = [Ret("args", "Ok", "") EXCEPT !.arg = <<artist_names, artist_mb_ids>>]
    /\ prev = Ret("init", "Ok", "")
    /\ calls = <<>>
    /\ ncalls = 0
    /\ logfile = NoLog
    /\ remote = <<>>
    /\ stdout = <<>>
    /\ statuses = NoStatuses

\* parse_artist_list applied to the arguments.
ParseArtistList ==
    /\ ret.op = "args"
    /\ LET r == parse_artist_list(ret.arg[1], ret.arg[2])
       IN  ret' = [Ret("parse_artist_list", r.kind, "")
                     EXCEPT !.arg = ret.arg, !.val = r.val]
    /\ prev' = ret
    /\ ncalls' = ncalls + 1
    /\ UNCHANGED <<pointer, keyring, filestore, calls, logfile, remote, stdout, statuses>>

NextArtists == ParseArtistList

SpecArtists == InitArtists /\ [][NextArtists]_vars

\* ------------------------------------------------------------------------
\* The status record (StatusManager) and the status commands of run_onyx
\* ------------------------------------------------------------------------

\* Moments, in minutes.
StatusTimes == 0..MaxTime

\* An Option<DateTime>: None is <<>>, Some(t) is <<t>>.
OptTimes == {<<>>} \cup {<<t>> : t \in StatusTimes}

\* PlayView: the track name and the artists; the optional fields a status
\* command passes on unchanged are left out.
PlayView(track_name, artists) == [track_name |-> track_name, artists |-> artists]

\* record::Status
Status(time, expiry, item) == [time |-> time, expiry |-> expiry, item |-> item]

\* The record fm.teal.alpha.actor.status as the repository holds it:
\* time, expiry, item and whatever else the record carries (extra_data).
StatusRecord(time, expiry, item, extra_data) ==
    [st |-> "present", time |-> time, expiry |-> expiry, item |-> item,
     extra_data |-> extra_data]

\* From<fm_teal_status::Status> for Status
StatusFromRecord(rec) == Status(rec.time, rec.expiry, rec.item)

\* StatusManager::resolve_did: a DID parses to itself, a handle is resolved
\* by the resolver; 0 stands for the error.
StatusManager_resolve_did(ident, env) ==
    IF ident.form = "did" THEN ident.n
    ELSE IF env = "resolve_fail" THEN 0
    ELSE Resolve(ident)

\* What a StatusManager operation ends in.
StatusRes(sts, r, c) == [statuses |-> sts, ret |-> r, calls |-> c]

\* StatusManager::get_status: resolve, then an unauthenticated get_record;
\* a transport failure is a ClientError, an answer that is not a record
\* (the address holds none) becomes OnyxError::Other.
StatusManager_get_status(sts, ident, env) ==
    LET did == StatusManager_resolve_did(ident, env)
        c0 == IF ident.form = "handle" THEN <<"resolver">> ELSE <<>>
        c1 == Append(c0, "remote.get_record")
    IN  IF did = 0 THEN StatusRes(sts, Ret("get_status", From("IdentityError"), ""), c0)
        ELSE IF env = "transport_fail"
        THEN StatusRes(sts, Ret("get_status", From("ClientError"), ""), c1)
        ELSE IF sts[get_status_endpoint(did)] = NoStatus
        THEN StatusRes(sts, Ret("get_status", "Other", ""), c1)
        ELSE StatusRes(sts,
                       [Ret("get_status", "Ok", "")
                          EXCEPT !.val = <<StatusFromRecord(sts[get_status_endpoint(did)])>>],
                       c1)

\* StatusManager::set_status: resolve, then Agent::update_record, which
\* fetches the record at the address, lets the closure assign time, expiry
\* and item, and puts the record back; without a record to fetch, or when
\* the service refuses, it is an AgentError and nothing is written.
StatusManager_set_status(sts, ident, status, env) ==
    LET did == StatusManager_resolve_did(ident, env)
        c0 == IF ident.form = "handle" THEN <<"resolver">> ELSE <<>>
        c1 == Append(c0, "remote.get_record")
        c2 == Append(c1, "remote.put_record")
    IN  IF did = 0 THEN StatusRes(sts, Ret("set_status", From("IdentityError"), ""), c0)
        ELSE IF env = "fetch_fail" \/ sts[get_status_endpoint(did)] = NoStatus
        THEN StatusRes(sts, Ret("set_status", From("AgentError"), ""), c1)
        ELSE IF env = "put_fail"
        THEN StatusRes(sts, Ret("set_status", From("AgentError"), ""), c2)
        ELSE StatusRes([sts EXCEPT ![get_status_endpoint(did)] =
                            [@ EXCEPT !.time = status.time, !.expiry = status.expiry,
                                      !.item = status.item]],
                       Ret("set_status", "Ok", ""), c2)

\* A clear_status whose expiry is the clear's own time.
StatusManager_clear_status_ExpiresNow(sts, ident, now, env) ==
    StatusManager_set_status(sts, ident, Status(now, <<now>>, PlayView("", <<>>)), env)

\* StatusManager::clear_status: set_status of a status whose time is now,
\* whose expiry is one minute before now and whose item has an empty track
\* name and no artists.
StatusManager_clear_status(sts, ident, now, env) ==
    StatusManager_set_status(sts, ident, Status(now, <<now - 1>>, PlayView("", <<>>)), env)

\* One printed line of Status::display.
StatusLine(tag, value) == [tag |-> tag, value |-> value]

\* Status::display: "nothing playing right now" when the track name and the
\* artists are both empty and raw is not asked for; otherwise the track and,
\* when there are artists or raw is asked for, the artists.
Status_display(status, raw, full) ==
    IF status.item.track_name = "" /\ status.item.artists = <<>> /\ ~raw
    THEN <<StatusLine("nothing playing right now", <<>>)>>
    ELSE <<StatusLine("track", status.item.track_name)>>
         \o (IF status.item.artists # <<>> \/ raw
             THEN <<StatusLine("artists", status.item.artists)>> ELSE <<>>)

\* What a status command ends in: the stores, the status records, the
\* lines printed, what get_session_info reported (info) and the result.
StatusCmdOut(o, sts, info, r, out, c) ==
    [pointer |-> o.pointer, keyring |-> o.keyring, filestore |-> o.filestore,
     statuses |-> sts, info |-> info, ret |-> r, stdout |-> out, calls |-> c]

\* The identifier a status command builds from a did.
DidIdent(did) == [form |-> "did", n |-> did]

\* run_onyx, StatusCommands::Show: the identifier is --handle or, without
\* it, the did get_session_info reports; get_status with `?`, then display.
Cmd_status_show(p, kr, fs, sts, handle, raw, full, env) ==
    LET info == Authenticator_get_session_info(p, kr, fs, env)
        ident == IF handle # <<>> THEN handle[1] ELSE DidIdent(info.ret.info.did)
        c0 == IF handle # <<>> THEN <<>> ELSE info.calls
        g == StatusManager_get_status(sts, ident, env)
        here == Out(p, kr, fs, info.ret, c0)
    IN  IF handle = <<>> /\ info.ret.kind # "Ok"
        THEN StatusCmdOut(here, sts, NoFile,
                          Ret("cmd_status_show", info.ret.kind, info.ret.msg), <<>>, c0)
        ELSE IF g.ret.kind # "Ok"
        THEN StatusCmdOut(here, sts, NoFile,
                          Ret("cmd_status_show", g.ret.kind, g.ret.msg), <<>>,
                          c0 \o g.calls)
        ELSE StatusCmdOut(here, sts, NoFile,
                          [Ret("cmd_status_show", "Ok", "") EXCEPT !.val = g.ret.val],
                          Status_display(g.ret.val[1], raw, full), c0 \o g.calls)

\* The tail of StatusCommands::Set and StatusCommands::Clear:
\* get_session_info with `?`, restore with `?`, then the operation on the
\* did of the pointer with `?`, then the line that reports success.
StatusCmdTail(op, p, kr, fs, sts, env, apply(_), done) ==
    LET info == Authenticator_get_session_info(p, kr, fs, env)
        session == Authenticator_restore(p, kr, fs, env)
        w == apply(DidIdent(info.ret.info.did))
        c1 == info.calls \o session.calls
    IN  IF info.ret.kind # "Ok"
        THEN StatusCmdOut(info, sts, NoFile, Ret(op, info.ret.kind, info.ret.msg),
                          <<>>, info.calls)
        ELSE IF session.ret.kind # "Ok"
        THEN StatusCmdOut(session, sts, info.ret.info,
                          Ret(op, session.ret.kind, session.ret.msg), <<>>, c1)
        ELSE IF w.ret.kind # "Ok"
        THEN StatusCmdOut(session, w.statuses, info.ret.info,
                          Ret(op, w.ret.kind, w.ret.msg), <<>>, c1 \o w.calls)
        ELSE StatusCmdOut(session, w.statuses, info.ret.info, Ret(op, "Ok", ""),
                          <<StatusLine("success", done)>>, c1 \o w.calls)

\* A Set command whose default expiry is the status time itself.
Cmd_status_set_ExpiresAtOnce(p, kr, fs, sts, track_name, artist_names, artist_mb_ids, time, expiry, now, env) ==
    LET parsed == parse_artist_list(artist_names, artist_mb_ids)
        artists == IF parsed.val = <<>> THEN <<>> ELSE parsed.val[1]
        time_ == IF time # <<>> THEN time[1] ELSE now
        status == Status(time_, <<IF expiry # <<>> THEN expiry[1] ELSE time_>>,
                         PlayView(track_name, artists))
        apply(ident) == StatusManager_set_status(sts, ident, status, env)
    IN  IF ~parsed.ok
        THEN StatusCmdOut(Out(p, kr, fs, NoFile, <<>>), sts, NoFile,
                          Ret("cmd_status_set", "Parse", ""), <<>>, <<>>)
        ELSE StatusCmdTail("cmd_status_set", p, kr, fs, sts, env, apply, "set status")

\* run_onyx, StatusCommands::Set: parse_artist_list with `?`; the status
\* time is --time or now, the expiry --expiry or the status time plus 10
\* minutes; then the tail.
Cmd_status_set(p, kr, fs, sts, track_name, artist_names, artist_mb_ids, time, expiry, now, env) ==
    LET parsed == parse_artist_list(artist_names, artist_mb_ids)
        artists == IF parsed.val = <<>> THEN <<>> ELSE parsed.val[1]
        time_ == IF time # <<>> THEN time[1] ELSE now
        status == Status(time_, <<IF expiry # <<>> THEN expiry[1] ELSE time_ + 10>>,
                         PlayView(track_name, artists))
        apply(ident) == StatusManager_set_status(sts, ident, status, env)
    IN  IF ~parsed.ok
        THEN StatusCmdOut(Out(p, kr, fs, NoFile, <<>>), sts, NoFile,
                          Ret("cmd_status_set", "Parse", ""), <<>>, <<>>)
        ELSE StatusCmdTail("cmd_status_set", p, kr, fs, sts, env, apply, "set status")

\* run_onyx, StatusCommands::Clear
Cmd_status_clear(p, kr, fs, sts, now, env) ==
    LET apply(ident) == StatusManager_clear_status(sts, ident, now, env)
    IN  StatusCmdTail("cmd_status_clear", p, kr, fs, sts, env, apply, "cleared status")

\* What can go wrong in a status command: reading the pointer, reading the
\* credential store, the backend rejecting the session, resolving a handle,
\* the transport, fetching the record, putting the record.
StatusEnvs ==
    {"ok", "ptr_read_fail", "store_fail", "rejected", "resolve_fail", "transport_fail",
     "fetch_fail", "put_fail"}

\* The records an address can hold before a command: none, or the record
\* of a track whose expiry is moment 0.
InitialStatusRecords ==
    {NoStatus,
     StatusRecord(0, <<0>>, PlayView("b", <<Artist(<<"b">>, <<>>)>>), <<"x">>)}

\* The machine before the status commands: logged out, or logged in by a
\* login that succeeded, with any records at the status addresses.
InitStatus ==
    /\ \/ /\ pointer = NoFile
          /\ keyring = EmptyStore
          /\ filestore = EmptyStore
       \/ \E store_method \in StoreMethods, password \in BOOLEAN :
              LET o == Authenticator_login(
                           NoFile, EmptyStore, EmptyStore,
                           CHOOSE ident \in Idents : ident.form = "did",
                           store_method, password,
                           CHOOSE session_id \in OAuthSessionIds : TRUE,
                           CHOOSE state \in AuthReqStates : TRUE, "ok")
              IN  /\ o.ret.kind = "Ok"
                  /\ pointer = o.pointer
                  /\ keyring = o.keyring
                  /\ filestore = o.filestore
    /\ ret = Ret("init", "Ok", "")
    /\ prev = Ret("init", "Ok", "")
    /\ calls = <<>>
    /\ ncalls = 0
    /\ logfile = NoLog
    /\ remote = <<>>
    /\ stdout = <<>>
    /\ statuses \in [StatusEndpoints -> InitialStatusRecords]

\* A status command that ended as o; ret keeps the command's arguments.
StatusCommand(o, arg) ==
    /\ ncalls < MaxStatusCalls
    /\ ncalls' = ncalls + 1
    /\ prev' = ret
    /\ pointer' = o.pointer
    /\ keyring' = o.keyring
    /\ filestore' = o.filestore
    /\ statuses' = o.statuses
    /\ ret' = [o.ret EXCEPT !.arg = arg, !.info = o.info]
    /\ stdout' = o.stdout
    /\ calls' = o.calls
    /\ UNCHANGED <<logfile, remote>>

StatusShowCall(handle, raw, full, now, env) ==
    StatusCommand(Cmd_status_show(pointer, keyring, filestore, statuses, handle, raw,
                                  full, env),
                  <<handle, raw, full, now>>)

\* Every Show command; a choice the command never gets to look at is not
\* enumerated.
StatusShow ==
    \E handle \in {<<>>} \cup {<<ident>> : ident \in Idents} :
        \E env \in {"ok", "transport_fail"}
                    \cup (IF handle = <<>> THEN {"ptr_read_fail"}
                          ELSE IF handle[1].form = "handle" THEN {"resolve_fail"}
                          ELSE {}) :
            \E raw \in (IF env = "ok" THEN BOOLEAN ELSE {FALSE}),
               full \in (IF env = "ok" THEN BOOLEAN ELSE {FALSE}),
               now \in (IF env = "ok" THEN StatusTimes ELSE {0}) :
                StatusShowCall(handle, raw, full, now, env)

\* The --artist-names and --artist-mb-ids a Set command is given here.
ArtistArgs ==
    {<< <<>>, <<>> >>,
     << << <<"a", ",", "b">> >>, << <<"b">> >> >>,
     << << <<"a">> >>, << <<"a", ",", "b">> >> >>}

StatusSetCall(track_name, artist_args, time, expiry, now, env) ==
    StatusCommand(Cmd_status_set(pointer, keyring, filestore, statuses, track_name,
                                 artist_args[1], artist_args[2], time, expiry, now, env),
                  <<time, expiry, now>>)

\* Every Set command; a choice the command never gets to look at is not
\* enumerated.
StatusSet ==
    \E artist_args \in ArtistArgs :
        LET parsed == parse_artist_list(artist_args[1], artist_args[2]).ok
        IN  \E env \in (IF parsed THEN StatusEnvs \ {"resolve_fail", "transport_fail"}
                        ELSE {"ok"}) :
                LET all == parsed /\ env = "ok"
                IN  \E track_name \in (IF all THEN {"", "a"} ELSE {"a"}),
                       time \in (IF all THEN OptTimes ELSE {<<>>}),
                       expiry \in (IF all THEN OptTimes ELSE {<<>>}),
                       now \in (IF all THEN StatusTimes ELSE {0}) :
                        StatusSetCall(track_name, artist_args, time, expiry, now, env)

StatusClearCall(now, env) ==
    StatusCommand(Cmd_status_clear(pointer, keyring, filestore, statuses, now, env),
                  <<now>>)

StatusClear ==
    \E env \in StatusEnvs \ {"resolve_fail", "transport_fail"} :
        \E now \in (IF env = "ok" THEN StatusTimes ELSE {0}) :
            StatusClearCall(now, env)

NextStatus == StatusShow \/ StatusSet \/ StatusClear

SpecStatus == InitStatus /\ [][NextStatus]_vars

\* ------------------------------------------------------------------------
\* The duration line of Status::display and StatusManager::display_status
\* ------------------------------------------------------------------------

\* The three numbers the non-raw branch computes from item.duration, with
\* the integer division of i64.
DurationParts(duration) ==
    LET hours == duration \div 3600
        minutes == (duration - (hours * 3600)) \div 60
        seconds == duration - (minutes * 60)
    IN  [hours |-> hours, minutes |-> minutes, seconds |-> seconds]

\* The "duration: ..." line: raw prints the number of seconds; otherwise the
\* string is put together from the hours if there are any, the minutes if
\* there are minutes or hours, and the seconds if anything is non-zero, each
\* formatted {:02} (the value keeps the numbers, in the order printed).
Duration_display(duration, raw) ==
    IF raw THEN StatusLine("duration", <<duration>>)
    ELSE LET parts == DurationParts(duration)
             hours == parts.hours
             minutes == parts.minutes
             seconds == parts.seconds
         IN  StatusLine("duration",
                 (IF hours > 0 THEN <<hours>> ELSE <<>>)
                 \o (IF minutes > 0 \/ hours > 0 THEN <<minutes>> ELSE <<>>)
                 \o (IF seconds > 0 \/ minutes > 0 \/ hours > 0
                     THEN <<seconds>> ELSE <<>>))

\* A status whose item has Some(duration), and the flag --raw.
InitDuration ==
    /\ pointer = NoFile
    /\ keyring = EmptyStore
    /\ filestore = EmptyStore
    /\ \E duration \in 0..MaxDuration, raw \in BOOLEAN :
           ret = [Ret("args", "Ok", "") EXCEPT !.arg = <<duration, raw>>]
    /\ prev = Ret("init", "Ok", "")
    /\ calls = <<>>
    /\ ncalls = 0
    /\ logfile = NoLog
    /\ remote = <<>>
    /\ stdout = <<>>
    /\ statuses = NoStatuses

\* display prints the duration line; ret.val keeps the three numbers the
\* non-raw branch computed.
DisplayDuration ==
    /\ ret.op = "args"
    /\ ret' = [Ret("display", "Ok", "")
                 EXCEPT !.arg = ret.arg,
                        !.val = IF ret.arg[2] THEN <<>>
                                ELSE <<DurationParts(ret.arg[1])>>]
    /\ stdout' = <<Duration_display(ret.arg[1], ret.arg[2])>>
    /\ prev' = ret
    /\ ncalls' = ncalls + 1
    /\ UNCHANGED <<pointer, keyring, filestore, calls, logfile, remote, statuses>>

NextDuration == DisplayDuration

SpecDuration == InitDuration /\ [][NextDuration]_vars

\* ------------------------------------------------------------------------
\* session.json under every operation that is handed the configuration
\* directory: the Authenticator's calls, the scrobble command and the
\* status commands
\* ------------------------------------------------------------------------

\* A log file with one listened track, and the status records all absent or
\* all present.
OneTrackLog ==
    [version |-> TRUE, client_id |-> <<>>,
     entries |-> <<[track_name |-> "a", rating |-> "L"]>>]

PresentStatuses ==
    [e \in StatusEndpoints |->
        StatusRecord(0, <<0>>, PlayView("b", <<Artist(<<"b">>, <<>>)>>), <<"x">>)]

\* Logged out, or logged in by a login that succeeded.
InitPointer ==
    /\ \/ /\ pointer = NoFile
          /\ keyring = EmptyStore
          /\ filestore = EmptyStore
       \/ \E store_method \in StoreMethods, password \in BOOLEAN :
              LET o == Authenticator_login(
                           NoFile, EmptyStore, EmptyStore,
                           CHOOSE ident \in Idents : ident.form = "did",
                           store_method, password,
                           CHOOSE session_id \in OAuthSessionIds : TRUE,
                           CHOOSE state \in AuthReqStates : TRUE, "ok")
              IN  /\ o.ret.kind = "Ok"
                  /\ pointer = o.pointer
                  /\ keyring = o.keyring
                  /\ filestore = o.filestore
    /\ ret = Ret("init", "Ok", "")
    /\ prev = Ret("init", "Ok", "")
    /\ calls = <<>>
    /\ ncalls = 0
    /\ logfile = OneTrackLog
    /\ remote = <<>>
    /\ stdout = <<>>
    /\ statuses \in {NoStatuses, PresentStatuses}

NextPointer ==
    \/ ncalls < MaxPointerCalls /\ Login
    \/ ncalls < MaxPointerCalls /\ Logout
    \/ ncalls < MaxPointerCalls /\ Restore
    \/ ncalls < MaxPointerCalls /\ GetSessionInfo
    \/ ncalls < MaxPointerCalls /\ Whoami
    \/ ncalls < MaxPointerCalls /\ LogfileCommand
    \/ ncalls < MaxPointerCalls /\ StatusShow
    \/ ncalls < MaxPointerCalls /\ StatusSet
    \/ ncalls < MaxPointerCalls /\ StatusClear

SpecPointer == InitPointer /\ [][NextPointer]_vars

\* ------------------------------------------------------------------------
\* Properties
\* ------------------------------------------------------------------------

\* The store a pointer names.
NamedStore(p, kr, fs) == IF p.store = "Keyring" THEN kr ELSE fs

\* The key (identity, session_id) a pointer names has an entry in the store
\* the pointer names.
PointerKeyPresent(p, kr, fs) ==
    p.st = "present" =>
        NamedStore(p, kr, fs)[SessionKeyStr(p.did, p.session_id)] # NoEntry

CountTag(lines, tag) == Cardinality({i \in DOMAIN lines : lines[i].tag = tag})

\* C1: logout is idempotent.  From a logged-in state a logout whose backend
\* does not fail succeeds, and a logout that directly follows a successful
\* logout returns the not-logged-in error, never a store error.
C1_LogoutTwice ==
    [][ /\ (pointer.st = "present" /\ LogoutCall("ok")) => ret'.kind = "Ok"
        /\ (ret.op = "logout" /\ ret.kind = "Ok" /\ Logout)
               => ret' = NotLoggedIn("logout") ]_vars

\* A second logout directly after a successful one returned not-logged-in.
C1_Witness ==
    /\ prev.op = "logout" /\ prev.kind = "Ok"
    /\ ret = NotLoggedIn("logout")

\* C2: a successful login always replaces the pointer by the identity,
\* session id, store method and auth method of that login, whatever the
\* pointer held before, and get_session_info reports exactly the pointer.
C2_LoginReplacesPointer ==
    [][ /\ (ret'.op = "login" /\ ret'.kind = "Ok")
           => \A ident \in Idents, store_method \in StoreMethods, password \in BOOLEAN,
                 session_id \in OAuthSessionIds, state \in AuthReqStates,
                 env \in LoginEnvs :
               LoginCall(ident, store_method, password, session_id, state, env)
               => pointer' = AuthSession(
                      Resolve(ident),
                      IF password THEN AppPasswordSessionId ELSE session_id,
                      store_method,
                      IF password THEN "AppPassword" ELSE "OAuth")
        /\ (GetSessionInfo /\ pointer.st = "present" /\ ret'.kind = "Ok")
               => ret'.info = pointer ]_vars

\* login(A) and login(B) with different identities succeeded one after the
\* other and get_session_info then reported B: A's blob is still stored,
\* the report names the other identity.
C2_Witness ==
    /\ ncalls = 3
    /\ prev.op = "login" /\ prev.kind = "Ok"
    /\ ret.op = "get_session_info" /\ ret.kind = "Ok"
    /\ ret.info = pointer
    /\ \E d \in Dids, sid \in SessionIds :
           /\ d # pointer.did
           /\ \/ keyring[SessionKeyStr(d, sid)] # NoEntry
              \/ filestore[SessionKeyStr(d, sid)] # NoEntry

\* C3: when exactly record k of the N parsed records fails, scrobble_logfile
\* still submits all N records in order, prints N-1 success lines, one
\* failure line, one error line and the summary "N-1 submitted, 1 failed",
\* and returns an error.
C3_OneFailureDoesNotStopTheBatch ==
    [][ ret'.op = "scrobble_logfile" => \A outcomes \in [1..MaxEntries -> BOOLEAN] :
            LET parsed == LogParser_parse(logfile)
                N == Len(parsed.tracks)
            IN  (/\ parsed.ok
                 /\ N >= 1
                 /\ \E k \in 1..N : \A i \in 1..N : outcomes[i] = (i # k)
                 /\ ScrobbleLogfileCall(outcomes))
                => /\ Len(remote') = N
                   /\ \A i \in 1..N :
                          /\ remote'[i].play.track_name = parsed.tracks[i].track_name
                          /\ remote'[i].accepted = outcomes[i]
                   /\ CountTag(stdout', "ok") = N - 1
                   /\ CountTag(stdout', "fail") = 1
                   /\ CountTag(stdout', "error") = 1
                   /\ stdout'[Len(stdout')] = Line("summary", "", N - 1, 1)
                   /\ ret'.kind = "Other" ]_vars

\* A run over three records whose first submission failed and whose second
\* and third were still submitted and accepted.
C3_Witness ==
    /\ ret.op = "scrobble_logfile" /\ ret.kind = "Other"
    /\ Len(remote) = 3
    /\ ~remote[1].accepted /\ remote[2].accepted /\ remote[3].accepted
    /\ stdout[Len(stdout)] = Line("summary", "", 2, 1)

\* C4: every record handed to scrobble_track is submitted once and ends in
\* exactly one recorded outcome that carries its track name: a success line
\* and Ok, or a failure line and an error naming the track.
C4_TrackHasOneOutcome ==
    [][ \A name \in TrackNames, client_id \in ClientIds, accepted \in BOOLEAN :
            ScrobbleTrackCall(name, client_id, accepted)
            => /\ Len(remote') = 1
               /\ remote'[1].play.track_name = name
               /\ stdout' = <<Line(IF accepted THEN "ok" ELSE "fail", name, 0, 0)>>
               /\ accepted => ret'.kind = "Ok"
               /\ ~accepted => (ret'.kind = "Other" /\ ret'.msg = name) ]_vars

\* A rejected track: one failure line and an error, both naming it.
C4_Witness ==
    /\ ret.op = "scrobble_track" /\ ret.kind = "Other"
    /\ Len(remote) = 1 /\ ~remote[1].accepted
    /\ stdout = <<Line("fail", remote[1].play.track_name, 0, 0)>>
    /\ ret.msg = remote[1].play.track_name

\* A logout that deleted the blob and then failed to remove the pointer file.
LogoutFailedAtPointer(r, c) ==
    /\ r.op = "logout" /\ r.kind = From("io::Error")
    /\ Len(c) = 3 /\ c[3] = "pointer.remove"

\* C5 as stated: in every state reached by completed login and logout
\* calls, a present pointer names a key that is present in the store it
\* names.
C5_Original == PointerKeyPresent(pointer, keyring, filestore)

\* C5: every call preserves "a present pointer names a key present in the
\* store it names", except a logout that deleted the blob and then failed
\* with an I/O error while removing the pointer file.
C5_PointerKeyPresentUnlessLogoutFailed ==
    [][ (PointerKeyPresent(pointer, keyring, filestore)
             /\ ~LogoutFailedAtPointer(ret', calls'))
        => PointerKeyPresent(pointer', keyring', filestore') ]_vars

\* A logout ran to completion with a store error and the pointer still names
\* a stored key.
C5_Witness ==
    /\ ret.op = "logout" /\ ret.kind = From("SessionStoreError")
    /\ pointer.st = "present"
    /\ NamedStore(pointer, keyring, filestore)[
           SessionKeyStr(pointer.did, pointer.session_id)] # NoEntry

\* C6: with no pointer file, restore, logout and get_session_info (and the
\* whoami command) return the not-logged-in Auth error and change neither
\* the pointer nor a store.
C6_LoggedOutCallsFail ==
    [][ (pointer.st = "absent" /\ (Restore \/ Logout \/ GetSessionInfo \/ Whoami))
        => /\ ret'.kind = "Auth" /\ ret'.msg = "not logged in"
           /\ ret'.op \in {"restore", "logout", "get_session_info", "whoami"}
           /\ pointer' = NoFile
           /\ keyring' = keyring
           /\ filestore' = filestore ]_vars

\* restore was called after a logout removed the pointer.
C6_Witness ==
    /\ prev.op = "logout" /\ prev.kind = "Ok"
    /\ ret = NotLoggedIn("restore")
    /\ pointer = NoFile

\* C7: when the pointer is present and restore fails, the error is not the
\* not-logged-in Auth error, and the pointer is unchanged.
C7_RestoreFailureIsNotLoggedOut ==
    [][ (pointer.st = "present" /\ Restore /\ ret'.kind # "Ok")
        => /\ ret'.kind # NotLoggedIn("restore").kind
           /\ ret'.kind \in {From("ClientError"), From("OAuthError"), From("io::Error")}
           /\ pointer' = pointer ]_vars

\* restore failed on a pointer whose blob is missing from the named store.
C7_Witness ==
    /\ ret.op = "restore" /\ ret.kind \in {From("ClientError"), From("OAuthError")}
    /\ pointer.st = "present"
    /\ NamedStore(pointer, keyring, filestore)[
           SessionKeyStr(pointer.did, pointer.session_id)] = NoEntry

\* C8: logout deletes the blob before the pointer: it removes the pointer
\* only when the blob is gone from the named store; a blob that is already
\* absent is tolerated; when deleting the blob fails otherwise, logout
\* returns the store error and leaves the pointer as it was.
C8_LogoutDeletesBlobFirst ==
    [][ ret'.op = "logout" => \A env \in LogoutEnvs :
            LogoutCall(env)
            => /\ pointer' # pointer
                   => NamedStore(pointer, keyring', filestore')[
                          SessionKeyStr(pointer.did, pointer.session_id)] = NoEntry
               /\ (pointer.st = "present" /\ env = "store_fail")
                   => /\ ret'.kind = From("SessionStoreError")
                      /\ pointer' = pointer
                      /\ keyring' = keyring
                      /\ filestore' = filestore
               /\ ret'.kind = From("SessionStoreError") => pointer' = pointer
               /\ (pointer.st = "present" /\ env = "ok"
                     /\ ~PointerKeyPresent(pointer, keyring, filestore))
                   => (ret'.kind = "Ok" /\ pointer' = NoFile) ]_vars

\* A logout failed while deleting the blob; the pointer is still there.
C8_Witness ==
    /\ ret.op = "logout" /\ ret.kind = From("SessionStoreError")
    /\ calls = <<"pointer.read", StoreName(pointer.store) \o ".delete">>
    /\ pointer.st = "present"

\* C9 as stated: on a keyring that answers, each of the four delete
\* operations returns Ok for a key without an entry and leaves the keyring
\* unchanged.
C9_Original ==
    [][ /\ \A key \in StoreKeys :
              (TokenStoreDelCall(key, FALSE) /\ keyring[key] = NoEntry)
              => (ret'.kind = "Ok" /\ keyring' = keyring)
        /\ \A k \in SessionKeys :
              (AtpDelCall(k, FALSE) /\ keyring[SessionKeyStr(k[1], k[2])] = NoEntry)
              => (ret'.kind = "Ok" /\ keyring' = keyring)
        /\ \A k \in SessionKeys :
              (DeleteSessionCall(k, FALSE) /\ keyring[SessionKeyStr(k[1], k[2])] = NoEntry)
              => (ret'.kind = "Ok" /\ keyring' = keyring)
        /\ \A state \in AuthReqStates :
              (DeleteAuthReqInfoCall(state, FALSE) /\ keyring[AuthReqKeyStr(state)] = NoEntry)
              => (ret'.kind = "Ok" /\ keyring' = keyring) ]_vars

\* C10 as stated: the whoami command reads only the pointer file.
C10_Original ==
    ret.op = "whoami" => \A i \in DOMAIN calls : calls[i] = "pointer.read"

\* C10: get_session_info is a pure read of the pointer: its only access is
\* the pointer file, it changes nothing, and it reports the pointer.  The
\* whoami command calls restore before it, which reads the named store when
\* the pointer is present; the command leaves the pointer unchanged and the
\* identity and method it reports are those of the pointer.
C10_WhoamiReadsPointerAfterRestore ==
    [][ /\ GetSessionInfo
               => /\ calls' = <<"pointer.read">>
                  /\ UNCHANGED <<pointer, keyring, filestore>>
                  /\ ret'.kind = "Ok" => ret'.info = pointer
        /\ ret'.op = "whoami"
           => \A env1 \in RestoreEnvs, env2 \in ReadEnvs :
               WhoamiCall(env1, env2)
               => /\ pointer' = pointer
                  /\ ret'.kind = "Ok" => ret'.info = pointer
                  /\ calls'[Len(calls')] = "pointer.read"
                  /\ (pointer.st = "present" /\ env1 \in {"ok", "store_fail", "rejected"})
                         => calls'[2] = StoreName(pointer.store) \o ".get" ]_vars

\* whoami reported the pointer's identity with the status "logged out"
\* after restore had looked the blob up in the named store.
C10_Witness ==
    /\ ret.op = "whoami" /\ ret.kind = "Ok" /\ ret.msg = "logged out"
    /\ ret.info = pointer
    /\ Len(calls) >= 2 /\ calls[2] = StoreName(pointer.store) \o ".get"

\* The arguments and backend behaviour under which identity resolution, the
\* credential exchange or the delegated flow of a login fails.
ExchangeFails(ident, password, env) ==
    \/ Resolve(ident) = 0
    \/ env = "exchange_fail"
    \/ ~password /\ ident.form = "handle" /\ env = "resolve_fail"
    \/ ~password /\ env = "flow_abort"

\* C11: login persists the credential under (identity, session_id) in the
\* chosen store before it writes the pointer, and writes the pointer only
\* after the exchange succeeded: the pointer write is the last access and
\* follows a write to the chosen store; a login whose identity resolution,
\* credential exchange or delegated flow fails returns an error and leaves
\* the pointer (or its absence) as it was.
C11_LoginStoresBeforePointer ==
    [][ ret'.op = "login" =>
          /\ (ret'.kind = "Ok" \/ pointer' # pointer)
                => /\ calls'[Len(calls')] = "pointer.write"
                   /\ \A i \in 1..(Len(calls') - 1) : calls'[i] # "pointer.write"
                   /\ \E i \in 1..(Len(calls') - 1) :
                          calls'[i] \in {"keyring.set", "file.set"}
          /\ ret'.kind = "Ok"
                => /\ PointerKeyPresent(pointer', keyring', filestore')
                   /\ calls'[Len(calls') - 1] = StoreName(pointer'.store) \o ".set"
          /\ ret'.kind \in {From("IdentityError"), From("ClientError"), From("OAuthError")}
                => pointer' = pointer
          /\ \A ident \in Idents, password \in BOOLEAN, env \in LoginEnvs :
               ExchangeFails(ident, password, env) =>
               \A store_method \in StoreMethods, session_id \in OAuthSessionIds,
                  state \in AuthReqStates :
                 LoginCall(ident, store_method, password, session_id, state, env)
                 => /\ ret'.kind \in {From("IdentityError"), From("ClientError"),
                                      From("OAuthError")}
                    /\ pointer' = pointer ]_vars

\* After a successful login, an OAuth login whose delegated flow was
\* abandoned (its authorization request is still stored) returned an error
\* and the pointer of the first login is still there.
C11_Witness ==
    /\ prev.op = "login" /\ prev.kind = "Ok"
    /\ ret.op = "login" /\ ret.kind = From("OAuthError")
    /\ pointer.st = "present"
    /\ PointerKeyPresent(pointer, keyring, filestore)
    /\ \E state \in AuthReqStates :
           \/ keyring[AuthReqKeyStr(state)] # NoEntry
           \/ filestore[AuthReqKeyStr(state)] # NoEntry

\* Number of the first N submissions the service rejected.
FailedCount(outcomes, N) == Cardinality({i \in 1..N : ~outcomes[i]})

\* The lines of the given tag, in the order they were printed.
TaggedLines(lines, tag) == SelectSeq(lines, LAMBDA l : l.tag = tag)

RECURSIVE FailingNames(_, _, _)
\* The names of the tracks from position i on whose submission the service
\* rejected, in input order.
FailingNames(tracks, outcomes, i) ==
    IF i > Len(tracks) THEN <<>>
    ELSE (IF outcomes[i] THEN <<>> ELSE <<tracks[i].track_name>>)
             \o FailingNames(tracks, outcomes, i + 1)

\* C12: given a log that parses, scrobble_logfile returns an error if and
\* only if at least one submission failed; when none failed it returns Ok
\* and prints a single aggregate success line with the total record count
\* and no error or summary line.
C12_ErrorIffSomeSubmissionFailed ==
    [][ ret'.op = "scrobble_logfile" => \A outcomes \in [1..MaxEntries -> BOOLEAN] :
            LET parsed == LogParser_parse(logfile)
                N == Len(parsed.tracks)
                F == FailedCount(outcomes, N)
            IN  (parsed.ok /\ ScrobbleLogfileCall(outcomes))
                => /\ (ret'.kind # "Ok") <=> (F > 0)
                   /\ F > 0 => (ret'.kind = "Other" /\ CountTag(stdout', "success") = 0)
                   /\ F = 0 => /\ ret'.kind = "Ok"
                               /\ CountTag(stdout', "success") = 1
                               /\ stdout'[Len(stdout')] = Line("success", "", N, 0)
                               /\ CountTag(stdout', "error") = 0
                               /\ CountTag(stdout', "summary") = 0 ]_vars

\* A run over two records that were both accepted returned Ok and ended
\* with the aggregate success line for two records.
C12_Witness ==
    /\ ret.op = "scrobble_logfile" /\ ret.kind = "Ok"
    /\ Len(remote) = 2
    /\ remote[1].accepted /\ remote[2].accepted
    /\ stdout[Len(stdout)] = Line("success", "", 2, 0)

\* C13: in the failure summary of scrobble_logfile the failed count is the
\* number of records whose submission failed, the submitted count is the
\* total minus the failed count, the two add up to the number of parsed
\* records, and one error line is printed per failed record.
C13_SummaryCounts ==
    [][ ret'.op = "scrobble_logfile" => \A outcomes \in [1..MaxEntries -> BOOLEAN] :
            LET parsed == LogParser_parse(logfile)
                N == Len(parsed.tracks)
                F == FailedCount(outcomes, N)
                summary == stdout'[Len(stdout')]
            IN  (parsed.ok /\ F > 0 /\ ScrobbleLogfileCall(outcomes))
                => /\ summary.tag = "summary"
                   /\ summary.b = F
                   /\ summary.a = N - F
                   /\ summary.a + summary.b = N
                   /\ CountTag(stdout', "summary") = 1
                   /\ CountTag(stdout', "error") = F
                   /\ CountTag(stdout', "fail") = F
                   /\ CountTag(stdout', "ok") = N - F ]_vars

\* A run over three records of which two failed: the summary says one
\* submitted, two failed, and two error lines were printed.
C13_Witness ==
    /\ ret.op = "scrobble_logfile" /\ ret.kind = "Other"
    /\ Len(remote) = 3
    /\ Cardinality({i \in 1..3 : ~remote[i].accepted}) = 2
    /\ stdout[Len(stdout)] = Line("summary", "", 1, 2)
    /\ CountTag(stdout, "error") = 2

\* C14: the submission loop is sequential and keeps the input order: each
\* request is followed by its outcome line before the next request is sent,
\* the requests name the parsed records in input order, the outcome lines
\* follow in the same order, and the error lines name the failing records
\* in input order.
C14_SequentialInOrder ==
    [][ ret'.op = "scrobble_logfile" => \A outcomes \in [1..MaxEntries -> BOOLEAN] :
            LET parsed == LogParser_parse(logfile)
                N == Len(parsed.tracks)
                errs == TaggedLines(stdout', "error")
                expected == FailingNames(parsed.tracks, outcomes, 1)
            IN  (parsed.ok /\ ScrobbleLogfileCall(outcomes))
                => /\ Len(remote') = N
                   /\ Len(calls') = 2 * N
                   /\ \A i \in 1..N :
                          /\ calls'[2 * i - 1] = "remote.create_record"
                          /\ calls'[2 * i] = "stdout.outcome"
                          /\ remote'[i].play.track_name = parsed.tracks[i].track_name
                          /\ stdout'[i + 1].text = parsed.tracks[i].track_name
                          /\ stdout'[i + 1].tag = IF outcomes[i] THEN "ok" ELSE "fail"
                   /\ Len(errs) = Len(expected)
                   /\ \A j \in 1..Len(errs) : errs[j].text = expected[j] ]_vars

\* A run in which record "a" and then record "b" failed, with an accepted
\* record between them: the error lines name "a" first and "b" second.
C14_Witness ==
    /\ ret.op = "scrobble_logfile" /\ ret.kind = "Other"
    /\ Len(remote) = 3
    /\ remote[1].play.track_name = "a" /\ ~remote[1].accepted
    /\ remote[2].accepted
    /\ remote[3].play.track_name = "b" /\ ~remote[3].accepted
    /\ TaggedLines(stdout, "error") = <<Line("error", "a", 0, 0), Line("error", "b", 0, 0)>>
    /\ calls = <<"remote.create_record", "stdout.outcome", "remote.create_record",
                 "stdout.outcome", "remote.create_record", "stdout.outcome">>

\* C15 as stated: for all four session variants a failure of
\* GenericSession::refresh carries an error kind other than the kind of a
\* transport failure (the kind ClientError::transport constructs).
C15_Original ==
    [][ (ret'.op = "refresh" /\ ret'.kind # "Ok")
        => ret'.val # <<ClientError_transport("").kind>> ]_vars

\* C16 as stated: an error that originates from the credential store (a
\* logout or restore whose store fails), from the delegated-authorization
\* component (an OAuth login whose flow fails, an OAuth restore the backend
\* rejects) or from the session (a password restore the backend rejects)
\* reaches the user as the Auth kind.
C16_Original ==
    [][ /\ (pointer.st = "present" /\ LogoutCall("store_fail")) => ret'.kind = "Auth"
        /\ (pointer.st = "present"
              /\ (RestoreCall("store_fail") \/ RestoreCall("rejected")))
               => ret'.kind = "Auth"
        /\ (ret'.op = "login" /\ ret'.kind # "Ok"
              /\ \E ident \in Idents, store_method \in StoreMethods,
                    session_id \in OAuthSessionIds, state \in AuthReqStates,
                    env \in {"exchange_fail", "flow_abort", "store_fail"} :
                     /\ Resolve(ident) # 0
                     /\ LoginCall(ident, store_method, FALSE, session_id, state, env))
               => ret'.kind = "Auth" ]_vars

\* C17: for an error returned by run_onyx, handle_error prints the
\* "try logging in" hint if and only if the error is of kind Auth; every
\* other kind prints only the error line; in both cases the process exits
\* with a failure status.
C17_HintIffAuth ==
    [][ (Main /\ ret.kind # "Ok")
        => /\ (CountTag(stdout', "hint") = 1) <=> (ret.kind = "Auth")
           /\ CountTag(stdout', "hint") \in {0, 1}
           /\ stdout'[1] = Line("error", ret.kind, 0, 0)
           /\ Len(stdout') = 1 + CountTag(stdout', "hint")
           /\ ret'.val = <<1>> ]_vars

\* A command that failed with "not logged in" was reported with the error
\* line and the hint, and the process exited with status 1.
C17_Witness ==
    /\ ret.op = "exit" /\ ret.kind = "Auth" /\ ret.val = <<1>>
    /\ prev = NotLoggedIn("logout")
    /\ stdout = <<Line("error", "Auth", 0, 0), Line("hint", "try logging in", 0, 0)>>

\* C18: only per-record submission failures are recovered inside the
\* pipeline: when restore fails, or when the log does not parse (missing
\* version header or a malformed entry), the Logfile command returns that
\* error, sends no request at all and leaves the log file in place.
C18_AbortBeforeSubmissions ==
    [][ (ret'.op = "cmd_logfile" /\ (prev'.kind # "Ok" \/ ~LogParser_parse(logfile).ok))
        => /\ remote' = <<>>
           /\ \A i \in DOMAIN calls' : calls'[i] # "remote.create_record"
           /\ CountTag(stdout', "ok") + CountTag(stdout', "fail") = 0
           /\ ret'.kind # "Ok"
           /\ prev'.kind # "Ok" => (ret'.kind = prev'.kind /\ stdout' = <<>>)
           /\ prev'.kind = "Ok" => ret'.kind = From("ParserError")
           /\ logfile' = logfile ]_vars

\* Logged in, with a log of listened records that parses: the backend
\* rejected the session at restore and the command ended with that error
\* without a single request.
C18_Witness ==
    /\ ret.op = "cmd_logfile"
    /\ prev.op = "restore" /\ prev.kind \in {From("ClientError"), From("OAuthError")}
    /\ ret.kind = prev.kind
    /\ pointer.st = "present"
    /\ PointerKeyPresent(pointer, keyring, filestore)
    /\ LogParser_parse(logfile).ok
    /\ Len(LogParser_parse(logfile).tracks) = 2
    /\ remote = <<>>

\* The type a stored value was serialized as.
TypeOf(session) ==
    IF session.kind = "StoredPasswordSession" THEN "StoredPasswordSession"
    ELSE "StoredSession"

\* C19: on a keyring that answers, a get that follows a successful set of
\* the same key, read as the type that was written, returns exactly the
\* value that set wrote, also when the key held another value before (for
\* an AtpSession: the same tokens, did and handle); a get that follows a
\* successful del of the same key returns None; and no operation changes
\* the value under a key other than its own.
C19_KeyringRoundTrip ==
    [][ /\ (ret'.op = "get" /\ ret.op = "set" /\ ret.kind = "Ok")
              => \A T \in StoredTypes :
                    (T = TypeOf(ret.arg[2]) /\ TokenStoreGetCall(ret.arg[1], T, FALSE))
                    => ret'.val = <<ret.arg[2]>>
        /\ (ret'.op = "atp_get" /\ ret.op = "atp_set" /\ ret.kind = "Ok")
              => \A k \in SessionKeys :
                    (SessionKeyStr(k[1], k[2]) = ret.arg[1] /\ AtpGetCall(k, FALSE))
                    => ret'.val = <<ret.arg[2]>>
        /\ (ret'.op = "get" /\ ret.op = "del" /\ ret.kind = "Ok")
              => \A T \in StoredTypes, fault \in BOOLEAN :
                    TokenStoreGetCall(ret.arg, T, fault) => ret'.val = <<>>
        /\ (ret'.op = "atp_get" /\ ret.op = "atp_del" /\ ret.kind = "Ok")
              => \A k \in SessionKeys, fault \in BOOLEAN :
                    (SessionKeyStr(k[1], k[2]) = ret.arg /\ AtpGetCall(k, fault))
                    => ret'.val = <<>>
        /\ (ret'.op \in {"get", "set", "del", "atp_get", "atp_set", "atp_del"})
              => \A other \in StoreKeys :
                    other # (IF ret'.op \in {"set", "atp_set"}
                             THEN ret'.arg[1] ELSE ret'.arg)
                    => keyring'[other] = keyring[other] ]_vars

\* On a keyring that held a password session under every account's key, a
\* set replaced the value of one key with another session and the get
\* after it returned that session, while the other account's key still
\* holds what it held.
C19_Witness ==
    /\ ncalls = 2
    /\ prev.op = "atp_set" /\ prev.kind = "Ok"
    /\ ret.op = "atp_get" /\ ret.arg = prev.arg[1]
    /\ ret.arg = SessionKeyStr(1, AppPasswordSessionId)
    /\ ret.val = <<prev.arg[2]>>
    /\ ret.val[1].tok # IssuedToken
    /\ ret.val[1].did # ret.val[1].handle
    /\ keyring[SessionKeyStr(2, AppPasswordSessionId)] =
           KeptStore[SessionKeyStr(2, AppPasswordSessionId)]

\* The session a login created, as the store the pointer names holds it
\* under the pointer's did and session id.
CreatedSession(p, kr, fs) ==
    (IF p.store = "Keyring" THEN kr ELSE fs)[SessionKeyStr(p.did, p.session_id)]

\* C20: after a successful login the pointer names the requested store
\* method, AppPassword if a password was given and OAuth otherwise, the did
\* the authentication returned and the session id of the session that was
\* created, "session" for a password login: the named store holds the new
\* session under exactly that did and session id, and a restore that
\* succeeds directly afterwards reports the same did and session id.
C20_PointerRecordsLogin ==
    [][ /\ (ret'.op = "login" /\ ret'.kind = "Ok")
           => \A ident \in Idents, store_method \in StoreMethods, password \in BOOLEAN,
                 session_id \in OAuthSessionIds, state \in AuthReqStates,
                 env \in LoginEnvs :
               LoginCall(ident, store_method, password, session_id, state, env)
               => /\ pointer'.st = "present"
                  /\ pointer'.store = store_method
                  /\ pointer'.auth = (IF password THEN "AppPassword" ELSE "OAuth")
                  /\ pointer'.did = Resolve(ident)
                  /\ pointer'.session_id =
                        (IF password THEN "session" ELSE session_id)
                  /\ LET created == CreatedSession(pointer', keyring', filestore')
                     IN  /\ created # NoEntry
                         /\ created.tok = IssuedToken
                         /\ (password /\ store_method = "Keyring")
                               => /\ created.did = pointer'.did
                                  /\ created.session_id = pointer'.session_id
        /\ (ret'.op = "restore" /\ ret'.kind = "Ok"
               /\ ret.op = "login" /\ ret.kind = "Ok")
           => /\ ret'.info.did = pointer.did
              /\ ret'.info.session_id = pointer.session_id
              /\ ret'.info.auth = pointer.auth ]_vars

\* A password login with the file store succeeded and the restore after it
\* returned a handle for the pointer's did and the session id "session".
C20_Witness ==
    /\ prev.op = "login" /\ prev.kind = "Ok"
    /\ ret.op = "restore" /\ ret.kind = "Ok"
    /\ pointer.store = "File" /\ pointer.auth = "AppPassword"
    /\ pointer.session_id = "session"
    /\ ret.info.did = pointer.did /\ ret.info.session_id = "session"
    /\ CreatedSession(pointer, keyring, filestore) # NoEntry

\* C21: a restore that succeeds returns the variant that belongs to the
\* pointer's auth method and store method (OAuth and Keyring give
\* KeyringOAuth, OAuth and File give FileOAuth, AppPassword and Keyring give
\* KeyringPassword, AppPassword and File give FilePassword); the variant's
\* session_kind is the pointer's auth method and its session_info reports
\* the pointer's did and session id.
C21_RestoreVariantMatchesPointer ==
    [][ (ret'.op = "restore" /\ ret'.kind = "Ok")
        => /\ pointer.st = "present"
           /\ pointer.auth = "OAuth" /\ pointer.store = "Keyring"
                 => ret'.variant = "KeyringOAuth"
           /\ pointer.auth = "OAuth" /\ pointer.store = "File"
                 => ret'.variant = "FileOAuth"
           /\ pointer.auth = "AppPassword" /\ pointer.store = "Keyring"
                 => ret'.variant = "KeyringPassword"
           /\ pointer.auth = "AppPassword" /\ pointer.store = "File"
                 => ret'.variant = "FilePassword"
           /\ session_kind(ret'.variant) = pointer.auth
           /\ ret'.info = session_info(ret'.variant, pointer.did, pointer.session_id)
           /\ ret'.info.did = pointer.did
           /\ ret'.info.session_id = pointer.session_id ]_vars

\* A restore of an OAuth session kept in the file store succeeded with the
\* variant FileOAuth.
C21_Witness ==
    /\ ret.op = "restore" /\ ret.kind = "Ok"
    /\ pointer.auth = "OAuth" /\ pointer.store = "File"
    /\ ret.variant = "FileOAuth"
    /\ ret.info.auth = "OAuth"
    /\ ret.info.did = pointer.did /\ ret.info.session_id = pointer.session_id

\* The names parse_artist_list keeps: the pieces between the commas,
\* trimmed, without the empty ones, in their order.
KeptNames(str) ==
    LET pieces == split(str)
        trimmed == [i \in 1..Len(pieces) |-> trim(pieces[i])]
    IN  SelectSeq(trimmed, LAMBDA name : name # <<>>)

\* C29: parse_artist_list returns None when no names are given; otherwise
\* it keeps the trimmed, non-empty names in order; with more
\* comma-separated ids than kept names it returns a Parse error and no list;
\* otherwise the i-th artist has the i-th kept name and, if the i-th id is
\* not empty after trimming, that trimmed id, and every other artist has
\* no id.
C29_ParseArtistList ==
    [][ ret'.op = "parse_artist_list"
        => LET artist_names == ret.arg[1]
               artist_mb_ids == ret.arg[2]
           IN  /\ artist_names = <<>> => (ret'.kind = "Ok" /\ ret'.val = <<>>)
               /\ artist_names # <<>>
                    => LET kept == KeptNames(artist_names[1])
                           ids == IF artist_mb_ids = <<>> THEN <<>>
                                  ELSE split(artist_mb_ids[1])
                       IN  IF Len(ids) > Len(kept)
                           THEN ret'.kind = "Parse" /\ ret'.val = <<>>
                           ELSE /\ ret'.kind = "Ok"
                                /\ Len(ret'.val) = 1
                                /\ Len(ret'.val[1]) = Len(kept)
                                /\ \A i \in 1..Len(kept) :
                                     /\ ret'.val[1][i].artist_name = kept[i]
                                     /\ ret'.val[1][i].artist_mb_id =
                                          (IF i <= Len(ids) /\ trim(ids[i]) # <<>>
                                           THEN <<trim(ids[i])>> ELSE <<>>) ]_vars

\* Two names were kept in order, the first got a trimmed id and the second
\* has none.
C29_Witness ==
    /\ ret.op = "parse_artist_list" /\ ret.kind = "Ok"
    /\ ret.arg = <<<< <<"b", ",", "a">> >>, << <<" ", "a">> >> >>
    /\ ret.val = << <<Artist(<<"b">>, << <<"a">> >>), Artist(<<"a">>, <<>>)>> >>

\* C22: a status clear that succeeds leaves, at the status address of the
\* logged-in identity, a record whose track name is empty, whose artists
\* are empty and whose expiry is strictly earlier than its time, the moment
\* the clear was issued; no clear removes a record; and a status show of
\* that identity directly after the clear gets exactly that record and
\* prints "nothing playing right now".
C22_ClearIsSoftAndExpired ==
    [][ /\ (ret'.op = "cmd_status_clear" /\ ret'.kind = "Ok")
           => LET rec == statuses'[get_status_endpoint(pointer.did)]
              IN  /\ rec.st = "present"
                  /\ rec.item.track_name = ""
                  /\ rec.item.artists = <<>>
                  /\ rec.time = ret'.arg[1]
                  /\ rec.expiry # <<>>
                  /\ rec.expiry[1] < rec.time
        /\ ret'.op = "cmd_status_clear"
           => \A e \in StatusEndpoints : statuses[e] # NoStatus => statuses'[e] # NoStatus
        /\ (ret.op = "cmd_status_clear" /\ ret.kind = "Ok" /\ ret'.op = "cmd_status_show")
           => \A raw \in BOOLEAN, full \in BOOLEAN, now \in StatusTimes :
                 StatusShowCall(<<>>, raw, full, now, "ok")
                 => /\ ret'.kind = "Ok"
                    /\ ret'.val =
                          <<StatusFromRecord(statuses[get_status_endpoint(pointer.did)])>>
                    /\ ret'.val[1].item.track_name = ""
                    /\ ret'.val[1].expiry[1] < ret.arg[1]
                    /\ ~raw => stdout' = <<StatusLine("nothing playing right now", <<>>)>>
      ]_vars

\* A clear replaced the record of a track, and the show after it got the
\* cleared record and printed "nothing playing right now".
C22_Witness ==
    /\ prev.op = "cmd_status_clear" /\ prev.kind = "Ok"
    /\ ret.op = "cmd_status_show" /\ ret.kind = "Ok"
    /\ ret.arg[1] = <<>>
    /\ ret.val[1].item = PlayView("", <<>>)
    /\ ret.val[1].time = prev.arg[1]
    /\ ret.val[1].expiry = <<prev.arg[1] - 1>>
    /\ stdout = <<StatusLine("nothing playing right now", <<>>)>>
    /\ statuses[get_status_endpoint(pointer.did)].extra_data = <<"x">>

\* C23 as stated: a status show of an identity whose status address holds
\* no record, or holds a record whose expiry lies before the moment of the
\* show, succeeds and prints "nothing playing right now", when the
\* transport works and raw output is not asked for.
C23_Original ==
    [][ ret'.op = "cmd_status_show"
        => \A d \in Dids, full \in BOOLEAN, now \in StatusTimes :
              LET rec == statuses[get_status_endpoint(d)]
              IN  (/\ \/ rec = NoStatus
                      \/ (rec # NoStatus /\ rec.expiry # <<>> /\ rec.expiry[1] < now)
                   /\ StatusShowCall(<<DidIdent(d)>>, FALSE, full, now, "ok"))
                  => /\ ret'.kind = "Ok"
                     /\ stdout' = <<StatusLine("nothing playing right now", <<>>)>>
      ]_vars

\* The session of the pointer restores and the services answer.
CanRestore ==
    Authenticator_restore(pointer, keyring, filestore, "ok").ret.kind = "Ok"

\* C24 as stated: a status set of a logged-in identity, when every service
\* answers, leaves at the identity's status address a record with the
\* time, expiry and item of this call, whether the address held a record
\* before or not, and changes no other address; a set or clear that fails
\* changes no record.
C24_Original ==
    [][ /\ ret'.op = "cmd_status_set"
           => \A track_name \in {"", "a"}, time \in OptTimes, expiry \in OptTimes,
                 now \in StatusTimes :
                 (CanRestore
                    /\ StatusSetCall(track_name, << <<>>, <<>> >>, time, expiry, now, "ok"))
                 => LET rec == statuses'[get_status_endpoint(pointer.did)]
                    IN  /\ ret'.kind = "Ok"
                        /\ rec # NoStatus
                        /\ rec.time = (IF time # <<>> THEN time[1] ELSE now)
                        /\ rec.item = PlayView(track_name, <<>>)
                        /\ \A e \in StatusEndpoints \ {get_status_endpoint(pointer.did)} :
                              statuses'[e] = statuses[e]
        /\ (ret'.op \in {"cmd_status_set", "cmd_status_clear"} /\ ret'.kind # "Ok")
           => statuses' = statuses ]_vars

\* C30: after a status set that succeeds the stored time is --time or,
\* without it, the moment of the command; without --expiry the stored
\* expiry is the stored time plus 10 minutes, strictly later than the
\* stored time; with --expiry the stored expiry is the given one.
C30_DefaultExpiry ==
    [][ (ret'.op = "cmd_status_set" /\ ret'.kind = "Ok")
        => LET time == ret'.arg[1]
               expiry == ret'.arg[2]
               now == ret'.arg[3]
               rec == statuses'[get_status_endpoint(pointer.did)]
           IN  /\ rec.time = (IF time = <<>> THEN now ELSE time[1])
               /\ expiry = <<>> => /\ rec.expiry = <<rec.time + 10>>
                                   /\ rec.expiry[1] > rec.time
               /\ expiry # <<>> => rec.expiry = expiry ]_vars

\* A set without --time and without --expiry at moment 1 stored time 1 and
\* expiry 11.
C30_Witness ==
    /\ ret.op = "cmd_status_set" /\ ret.kind = "Ok"
    /\ ret.arg = <<<<>>, <<>>, 1>>
    /\ statuses[get_status_endpoint(pointer.did)].time = 1
    /\ statuses[get_status_endpoint(pointer.did)].expiry = <<11>>

C26_ClientAgentStamped ==
    LET tracks == IF ret.op = "scrobble_logfile" THEN LogParser_parse(logfile).tracks
                  ELSE <<[track_name |-> ret.arg[1], client_id |-> ret.arg[2]]>>
    IN  ret.op \in {"scrobble_track", "scrobble_logfile"} =>
            \A i \in 1..Len(remote) :
                LET agent == remote[i].play.submission_client_agent
                    id == tracks[i].client_id
                IN  /\ agent # <<>>
                    /\ id # <<>> =>
                           agent = <<(<<"onyx", "/", "version", " (", id[1], ")">>)>>
                    /\ id = <<>> => agent = <<(<<"onyx", "/", "version">>)>>

\* A log file of the rockbox client with two listened tracks was submitted,
\* the second request refused: both requests name the client.
C26_Witness ==
    /\ ret.op = "scrobble_logfile"
    /\ logfile.client_id = <<"rockbox">>
    /\ Len(remote) = 2
    /\ ~remote[2].accepted
    /\ \A i \in 1..2 :
           remote[i].play.submission_client_agent
               = <<(<<"onyx", "/", "version", " (", "rockbox", ")">>)>>

\* C27: login never deletes a credential blob.  No session entry of either
\* store is gone after a login, whatever its outcome; and when a successful
\* login directly follows a successful login and its key (did, session id,
\* store) differs, the blob of the first login is still in its store,
\* unchanged, although the pointer names the second.
C27_LoginKeepsBlobs ==
    [][ret'.op = "login" =>
        /\ \A d \in Dids, sid \in SessionIds :
               LET k == SessionKeyStr(d, sid)
               IN  /\ keyring[k] # NoEntry => keyring'[k] # NoEntry
                   /\ filestore[k] # NoEntry => filestore'[k] # NoEntry
        /\ (/\ ret.op = "login" /\ ret.kind = "Ok" /\ ret'.kind = "Ok"
            /\ <<pointer'.did, pointer'.session_id, pointer'.store>>
                   # <<pointer.did, pointer.session_id, pointer.store>>)
               => /\ pointer.st = "present"
                  /\ pointer' # pointer
                  /\ CreatedSession(pointer, keyring', filestore') # NoEntry
                  /\ CreatedSession(pointer, keyring', filestore')
                         = CreatedSession(pointer, keyring, filestore)]_vars

\* login(A), login(B) and a third call: the last two logins succeeded, B
\* went to the same store under another did, and the store holds the
\* blobs of both while the pointer names B.
C27_Witness ==
    /\ ncalls = 2
    /\ prev.op = "login" /\ prev.kind = "Ok"
    /\ ret.op = "login" /\ ret.kind = "Ok"
    /\ pointer.st = "present"
    /\ \E d \in Dids, sid \in SessionIds :
           /\ d # pointer.did
           /\ CreatedSession(AuthSession(d, sid, pointer.store, pointer.auth),
                             keyring, filestore) # NoEntry
           /\ CreatedSession(pointer, keyring, filestore) # NoEntry

\* C28 as stated: the pointer changes only in a login that succeeds or in
\* a logout.
C28_Original ==
    [][pointer' # pointer =>
        \/ ret'.op = "login" /\ ret'.kind = "Ok"
        \/ ret'.op = "logout"]_vars

\* C28, amended: session.json is created or overwritten only by a login
\* that got as far as writing it: a login that succeeds leaves its own
\* record there, a login that fails before the write leaves the file as it
\* was, and one whose write fails with an I/O error may leave it truncated.
\* Only a logout that succeeds removes it.  restore, get_session_info,
\* whoami, the scrobble command and the status commands leave it as it is.
C28_PointerLifeCycle ==
    [][ /\ pointer' # pointer =>
            \/ ret'.op = "login" /\ ret'.kind = "Ok" /\ pointer'.st = "present"
            \/ ret'.op = "login" /\ ret'.kind = "Io" /\ pointer' = CorruptFile
            \/ ret'.op = "logout" /\ ret'.kind = "Ok" /\ pointer' = NoFile
        /\ (ret'.op = "login" /\ ret'.kind = "Ok") => pointer'.st = "present"
        /\ (ret'.op = "login" /\ ret'.kind \notin {"Ok", "Io"}) => pointer' = pointer
        /\ (ret'.op = "logout" /\ ret'.kind = "Ok") => pointer' = NoFile
        /\ ret'.op \notin {"login", "logout"} => pointer' = pointer ]_vars

\* A status command changed the record at the service after a login, and
\* the pointer is the one the login wrote.
C28_Witness ==
    /\ ncalls = 2
    /\ prev.op = "login" /\ prev.kind = "Ok"
    /\ ret.op = "cmd_status_set" /\ ret.kind = "Ok"
    /\ statuses # PresentStatuses
    /\ pointer.st = "present"
    /\ pointer.store = "File"

\* C31: within one run of scrobble_logfile every parsed record is submitted
\* exactly once: the run makes one create_record call per record, the i-th
\* request is the i-th record, and neither a refused nor an accepted
\* request is sent a second time.
C31_OneRequestPerRecord ==
    ret.op = "scrobble_logfile" =>
        LET tracks == LogParser_parse(logfile).tracks
            creates == {i \in DOMAIN calls : calls[i] = "remote.create_record"}
        IN  /\ Cardinality(creates) = Len(tracks)
            /\ Len(remote) = Len(tracks)
            /\ \A i \in 1..Len(tracks) :
                   remote[i].play.track_name = tracks[i].track_name

\* A run over three listened tracks, the first accepted and the second
\* refused: three requests were sent.
C31_Witness ==
    /\ ret.op = "scrobble_logfile"
    /\ Len(LogParser_parse(logfile).tracks) = 3
    /\ Len(remote) = 3
    /\ remote[1].accepted
    /\ ~remote[2].accepted
    /\ Cardinality({i \in DOMAIN calls : calls[i] = "remote.create_record"}) = 3

\* C32: logout can be retried after an interruption.  When the pointer is
\* present and the blob it names is already gone from the store it names
\* (a logout stopped between the two deletions), a logout whose backend
\* does not fail succeeds, leaves both stores as they are and ends with the
\* pointer absent, for the keyring and for the file store.
C32_LogoutRetry ==
    [][ (/\ ret'.op = "logout"
         /\ pointer.st = "present"
         /\ CreatedSession(pointer, keyring, filestore) = NoEntry
         /\ LogoutCall("ok"))
        => /\ ret'.kind = "Ok"
           /\ pointer' = NoFile
           /\ keyring' = keyring
           /\ filestore' = filestore ]_vars

\* A logout on the keyring deleted the blob and failed at the pointer
\* file; the logout after it succeeded and the pointer is gone.
C32_Witness ==
    /\ ncalls = 3
    /\ prev.op = "logout" /\ prev.kind = "Io"
    /\ ret.op = "logout" /\ ret.kind = "Ok"
    /\ calls = <<"pointer.read", "keyring.delete", "pointer.remove">>
    /\ pointer = NoFile
    /\ keyring = EmptyStore

\* C33: a logout that returns success was called with a pointer present
\* and ends with the pointer absent and no blob under the pointer's did and
\* session id in the store the pointer named; a restore directly after it
\* returns the not-logged-in error whatever the backend does.
C33_LogoutLeavesNothing ==
    [][ /\ (ret'.op = "logout" /\ ret'.kind = "Ok")
            => /\ pointer.st = "present"
               /\ pointer' = NoFile
               /\ CreatedSession(pointer, keyring', filestore') = NoEntry
        /\ (ret.op = "logout" /\ ret.kind = "Ok" /\ ret'.op = "restore")
            => /\ ret' = NotLoggedIn("restore")
               /\ pointer' = NoFile ]_vars

\* login, a logout that succeeded and a restore: the restore reported not
\* logged in and neither store holds anything.
C33_Witness ==
    /\ ncalls = 3
    /\ prev.op = "logout" /\ prev.kind = "Ok"
    /\ ret = NotLoggedIn("restore")
    /\ pointer = NoFile
    /\ \A d \in Dids, sid \in SessionIds :
           /\ keyring[SessionKeyStr(d, sid)] = NoEntry
           /\ filestore[SessionKeyStr(d, sid)] = NoEntry

\* C34: logout changes at most one store entry, the one under the did and
\* session id of the current pointer in the store the pointer names: every
\* other key of that store (sessions of earlier logins, authreq_ entries)
\* and every key of the other store hold what they held; without a
\* readable pointer logout changes no entry at all.
C34_LogoutDeletesOnlyItsBlob ==
    [][ ret'.op = "logout" =>
        LET named == SessionKeyStr(pointer.did, pointer.session_id)
        IN  /\ \A k \in StoreKeys :
                   /\ (pointer.st # "present" \/ pointer.store # "Keyring" \/ k # named)
                          => keyring'[k] = keyring[k]
                   /\ (pointer.st # "present" \/ pointer.store = "Keyring" \/ k # named)
                          => filestore'[k] = filestore[k]
            /\ (keyring' # keyring \/ filestore' # filestore)
                   => NamedStore(pointer, keyring', filestore')[named] = NoEntry ]_vars

\* After two logins a logout succeeded, and a store still holds the
\* session of the login the pointer no longer named.
C34_Witness ==
    /\ ncalls = 3
    /\ ret.op = "logout" /\ ret.kind = "Ok"
    /\ prev.op = "login" /\ prev.kind = "Ok"
    /\ pointer = NoFile
    /\ \E d \in Dids, sid \in SessionIds :
           \/ keyring[SessionKeyStr(d, sid)] # NoEntry
           \/ filestore[SessionKeyStr(d, sid)] # NoEntry

\* C35: the Logfile command removes the log file only with --delete and
\* only after scrobble_logfile returned Ok: the log parsed and every one of
\* its records was accepted.  When restore fails, the log does not parse or
\* a request is refused, the file is left as it was; a removed file comes
\* with a command that returned Ok.
C35_DeleteOnlyAfterSuccess ==
    [][ ret'.op = "cmd_logfile" =>
        LET parsed == LogParser_parse(logfile)
        IN  /\ logfile' # logfile =>
                   /\ logfile' = RemovedLog
                   /\ prev'.kind = "Ok"
                   /\ parsed.ok
                   /\ Len(remote') = Len(parsed.tracks)
                   /\ \A i \in 1..Len(remote') : remote'[i].accepted
                   /\ ret'.kind = "Ok"
            /\ (~parsed.ok \/ \E i \in 1..Len(remote') : ~remote'[i].accepted)
                   => (logfile' = logfile /\ ret'.kind # "Ok")
            /\ \A env \in RestoreEnvs, outcomes \in [1..MaxEntries -> BOOLEAN],
                  rmfails \in BOOLEAN :
                   LogfileCommandCall(env, outcomes, FALSE, rmfails)
                       => logfile' = logfile ]_vars

\* With --delete a log of two listened records was submitted, both
\* accepted, and the file is gone.
C35_Witness ==
    /\ ret.op = "cmd_logfile" /\ ret.kind = "Ok"
    /\ logfile = RemovedLog
    /\ Len(remote) = 2
    /\ remote[1].accepted /\ remote[2].accepted
    /\ calls[Len(calls)] = "logfile.remove"

\* C36: for a log that parses, the parser returns one record per entry
\* rated L, in file order, and none for an entry rated S; a run of
\* scrobble_logfile sends that many requests, for those tracks in that
\* order, and the count it prints (submitted, or submitted plus failed) is
\* the number of listened entries.
C36_OneRecordPerListenedEntry ==
    (ret.op = "scrobble_logfile" /\ LogParser_parse(logfile).ok) =>
        LET listened == SelectSeq(logfile.entries, LAMBDA e : e.rating = "L")
            tracks == LogParser_parse(logfile).tracks
            last == stdout[Len(stdout)]
        IN  /\ Len(tracks) = Len(listened)
            /\ Len(remote) = Len(listened)
            /\ \A i \in 1..Len(listened) :
                   /\ tracks[i].track_name = listened[i].track_name
                   /\ remote[i].play.track_name = listened[i].track_name
            /\ last.tag \in {"success", "summary"}
            /\ last.a + last.b = Len(listened)

\* A log with a listened, a skipped and a listened entry was submitted:
\* two requests, for the first and the third entry.
C36_Witness ==
    /\ ret.op = "scrobble_logfile"
    /\ logfile.version
    /\ Len(logfile.entries) = 3
    /\ logfile.entries[1].rating = "L" /\ logfile.entries[1].track_name = "a"
    /\ logfile.entries[2].rating = "S"
    /\ logfile.entries[3].rating = "L" /\ logfile.entries[3].track_name = "b"
    /\ Len(remote) = 2
    /\ remote[1].play.track_name = "a"
    /\ remote[2].play.track_name = "b"

\* C37: KeyringAuthStore::get_session and get_auth_req_info return an error
\* when the key has no entry in the keyring; Ok(None) only when the entry
\* holds a stored session of another kind than the one asked for; and, the
\* keyring answering, Ok(Some) of the stored session when the entry holds
\* the kind asked for (OAuth for get_session, OAuthState for
\* get_auth_req_info).  Neither changes the keyring.
C37_KeyringGetMissIsError ==
    [][ ret'.op \in {"get_session", "get_auth_req_info"} =>
        LET entry == keyring[ret'.arg]
            wanted == IF ret'.op = "get_session" THEN "OAuth" ELSE "OAuthState"
            given == IF ret'.op = "get_session" THEN "ClientSessionData"
                     ELSE "AuthRequestData"
        IN  /\ keyring' = keyring
            /\ entry = NoEntry => ret'.kind = "SessionStoreError"
            /\ (ret'.kind = "Ok" /\ ret'.val = <<>>)
                   => /\ entry # NoEntry
                      /\ entry.kind \in {"Atp", "OAuth", "OAuthState"} \ {wanted}
            /\ (ret'.kind = "Ok" /\ ret'.val # <<>>)
                   => /\ entry.kind = wanted
                      /\ ret'.val = <<Blob(given, entry.tok)>>
            /\ \A k \in SessionKeys :
                   (/\ keyring[SessionKeyStr(k[1], k[2])].kind = "OAuth"
                    /\ Stores("get_session", SessionKeyStr(k[1], k[2]),
                              KeyringAuthStore_get_session(keyring, k[1], k[2], FALSE)))
                   => (ret'.kind = "Ok" /\ ret'.val # <<>>)
            /\ \A state \in AuthReqStates :
                   (/\ keyring[AuthReqKeyStr(state)].kind = "OAuthState"
                    /\ Stores("get_auth_req_info", AuthReqKeyStr(state),
                              KeyringAuthStore_get_auth_req_info(keyring, state, FALSE)))
                   => (ret'.kind = "Ok" /\ ret'.val # <<>>) ]_vars

\* get_session on a key whose entry is an authorization request: Ok(None).
C37_Witness ==
    /\ ret.op = "get_session"
    /\ ret.kind = "Ok"
    /\ ret.val = <<>>
    /\ keyring[ret.arg].kind = "OAuthState"

\* C38: in the non-raw display a duration of d >= 0 seconds is split into
\* hours, minutes and seconds with hours*3600 + minutes*60 + seconds = d,
\* minutes < 60 and seconds < 60, for every d.
C38_Original ==
    (ret.op = "display" /\ ~ret.arg[2]) =>
        LET d == ret.arg[1]
            parts == ret.val[1]
        IN  /\ parts.hours * 3600 + parts.minutes * 60 + parts.seconds = d
            /\ parts.minutes < 60
            /\ parts.seconds < 60

====
